---- MODULE Spec2Model ----
(***************************************************************************)
(* A model of the B+ tree index engine of Btree/submission/btree.cpp:      *)
(* the index file's pages, the buffer manager's pin counts, the insert     *)
(* engine (insertEntry, insert, splitLeaf, splitInternal, splitRoot) and   *)
(* the scan engine (startScan, scanNext, endScan).                         *)
(*                                                                         *)
(* Every public method is one action.  The value `trace` is the list of    *)
(* buffer-manager calls and page accesses the last call made, in program   *)
(* order, so that properties of a call's intermediate steps are state      *)
(* predicates.                                                             *)
(***************************************************************************)
EXTENDS Integers, Sequences, FiniteSets, TLC

----------------------------------------------------------------------------
(* Bounds of the model.                                                    *)

\* INTARRAYLEAFSIZE is even in the build (682); the model keeps the parity.
LeafHalf == 2
\* INTARRAYNONLEAFSIZE is odd in the build (1023); the model keeps the parity.
NodeHalf == 1
\* Keys inserted are 0..MaxKey.
MaxKey == 1
\* Number of insertEntry calls in a behaviour of Spec.
MaxInserts == 5
\* Number of insertEntry calls in a behaviour of SpecTree.
MaxTreeInserts == 8
\* Number of insertEntry calls in a behaviour of SpecArgs.
MaxArgsInserts == 2

leafOccupancy == 2 * LeafHalf
nodeOccupancy == 2 * NodeHalf + 1

\* The model's `int`: IntMin and IntMax stand for INT_MIN and INT_MAX.
IntMin == 0 - 1
IntMax == MaxKey + 1
Int32 == IntMin .. IntMax
InsertKeys == 0 .. MaxKey

LeafIdx == 0 .. (leafOccupancy - 1)
KeyIdx == 0 .. (nodeOccupancy - 1)
ChildIdx == 0 .. nodeOccupancy

Operators == {"LT", "LTE", "GT", "GTE"}

----------------------------------------------------------------------------
(* Pages.  A page is raw bytes that the engine reinterprets; `kind` records *)
(* which overlay the engine wrote it through.                               *)

NoRid == [page_number |-> 0, slot_number |-> 0]

\* A page as allocPage hands it out, seen through LeafNodeInt.
EmptyLeaf ==
  [kind |-> "leaf",
   keyArray |-> [i \in LeafIdx |-> 0],
   ridArray |-> [i \in LeafIdx |-> NoRid],
   rightSibPageNo |-> 0]

\* A page as allocPage hands it out, seen through NonLeafNodeInt.
EmptyNonLeaf ==
  [kind |-> "nonleaf",
   level |-> 0,
   keyArray |-> [i \in KeyIdx |-> 0],
   pageNoArray |-> [i \in ChildIdx |-> 0]]

\* The header page, seen through IndexMetaInfo.
MetaPage(root) ==
  [kind |-> "meta",
   relationName |-> "relA",
   attrByteOffset |-> 0,
   attrType |-> "INTEGER",
   rootPageNo |-> root]

----------------------------------------------------------------------------
(* The buffer manager, on an engine state                                  *)
(*   st = [pages, pinCnt, rootPageNum, initialRootPageId, trace, exc,      *)
(*         newInternal, ubRead].                                           *)

Event(op, p, dirty, pins) == [op |-> op, page |-> p, dirty |-> dirty, pins |-> pins]

ValidPage(st, p) == p \in 1 .. Len(st.pages)

\* readPage: pins the page; a page id that is no page of the file raises.
ReadPage(st, p) ==
  IF ~ValidPage(st, p)
    THEN [st EXCEPT !.exc = "InvalidPage",
                    !.trace = Append(@, Event("readPage", p, FALSE, 0))]
    ELSE [st EXCEPT !.pinCnt[p] = @ + 1,
                    !.trace = Append(@, Event("readPage", p, FALSE, st.pinCnt[p] + 1))]

\* allocPage: appends a zero-filled page to the file and pins it.
AllocPage(st, blank) ==
  LET p == Len(st.pages) + 1 IN
  [st EXCEPT !.pages = Append(@, blank),
             !.pinCnt = Append(@, 1),
             !.trace = Append(@, Event("allocPage", p, FALSE, 1))]

\* unPinPage: releases one pin; raises PageNotPinned on an unpinned page.
UnPinPage(st, p, dirty) ==
  IF ~ValidPage(st, p) \/ st.pinCnt[p] = 0
    THEN [st EXCEPT !.exc = "PageNotPinned",
                    !.trace = Append(@, Event("unPinPage", p, dirty, 0))]
    ELSE [st EXCEPT !.pinCnt[p] = @ - 1,
                    !.trace = Append(@, Event("unPinPage", p, dirty, st.pinCnt[p] - 1))]

\* The engine reads or writes bytes of page p; the event keeps the page's
\* pin count at that moment.
Access(st, p) ==
  [st EXCEPT !.trace = Append(@, Event("access", p, FALSE,
                                       IF ValidPage(st, p) THEN st.pinCnt[p] ELSE 0))]

----------------------------------------------------------------------------
(* Undefined behaviour.  A call resolves each of its undefined reads and   *)
(* writes by the choice `ub`:                                              *)
(*   clobbered, key, pageZero: what a read through the dangling            *)
(*     newInternal pointer yields: the pair that was written, or a pair    *)
(*     whose key is `key` (an int far from the stored keys) and whose      *)
(*     page id is 0 or the one written;                                    *)
(*   oobStore: whether the store to keyArray[nodeOccupancy], one past the  *)
(*     array, lands on pageNoArray[0], the field that follows it.          *)

GarbageKeys == {IntMin, IntMax}

UBChoices ==
  [clobbered : {FALSE}, key : {0}, pageZero : {FALSE}, oobStore : BOOLEAN]
    \cup [clobbered : {TRUE}, key : GarbageKeys, pageZero : BOOLEAN, oobStore : BOOLEAN]

\* The choice under which every undefined read yields what was written.
Benign == [clobbered |-> FALSE, key |-> 0, pageZero |-> FALSE, oobStore |-> FALSE]

NullInternal == [set |-> FALSE, pageNo |-> 0, key |-> 0, dangling |-> FALSE]

\* *newInternal as the reading frame sees it.
Deref(ni, ub) ==
  IF ni.dangling /\ ub.clobbered
    THEN [pageNo |-> IF ub.pageZero THEN 0 ELSE ni.pageNo, key |-> ub.key]
    ELSE [pageNo |-> ni.pageNo, key |-> ni.key]

----------------------------------------------------------------------------
(* Leaf and interior node primitives.                                      *)

RECURSIVE InsertLeafLoop(_, _, _)
InsertLeafLoop(leaf, newEntry, i) ==
  IF i < 0
    THEN [leaf EXCEPT !.keyArray[0] = newEntry.key, !.ridArray[0] = newEntry.rid]
    ELSE IF leaf.ridArray[i].page_number # 0
      THEN IF leaf.keyArray[i] > newEntry.key
             THEN InsertLeafLoop(
                    IF i + 1 \in LeafIdx
                      THEN [leaf EXCEPT !.keyArray[i + 1] = leaf.keyArray[i],
                                        !.ridArray[i + 1] = leaf.ridArray[i]]
                      ELSE leaf,
                    newEntry, i - 1)
             ELSE IF i + 1 \in LeafIdx
                    THEN [leaf EXCEPT !.keyArray[i + 1] = newEntry.key,
                                      !.ridArray[i + 1] = newEntry.rid]
                    ELSE leaf
      ELSE InsertLeafLoop(leaf, newEntry, i - 1)

\* insertLeaf without the shift: the entry goes to the first free slot.
insertLeafAppend(leaf, newEntry) ==
  LET n == Cardinality({i \in LeafIdx : leaf.ridArray[i].page_number # 0}) IN
  IF n \in LeafIdx
    THEN [leaf EXCEPT !.keyArray[n] = newEntry.key, !.ridArray[n] = newEntry.rid]
    ELSE leaf

\* insertLeaf that also shifts the entries of an equal key.
insertLeafBeforeEqual(leaf, newEntry) ==
  LET n == Cardinality({i \in LeafIdx : leaf.ridArray[i].page_number # 0})
      pos == Cardinality({i \in LeafIdx : /\ leaf.ridArray[i].page_number # 0
                                          /\ leaf.keyArray[i] < newEntry.key})
  IN IF n \in LeafIdx
       THEN [leaf EXCEPT
               !.keyArray = [i \in LeafIdx |->
                               IF i < pos THEN leaf.keyArray[i]
                               ELSE IF i = pos THEN newEntry.key
                               ELSE IF i <= n THEN leaf.keyArray[i - 1]
                               ELSE leaf.keyArray[i]],
               !.ridArray = [i \in LeafIdx |->
                               IF i < pos THEN leaf.ridArray[i]
                               ELSE IF i = pos THEN newEntry.rid
                               ELSE IF i <= n THEN leaf.ridArray[i - 1]
                               ELSE leaf.ridArray[i]]]
       ELSE leaf

insertLeaf(leaf, newEntry) ==
  IF leaf.ridArray[0].page_number # 0
    THEN InsertLeafLoop(leaf, newEntry, leafOccupancy - 1)
    ELSE [leaf EXCEPT !.keyArray[0] = newEntry.key, !.ridArray[0] = newEntry.rid]

findNextInternal(internal, key) ==
  LET hits == {i \in 1 .. nodeOccupancy :
                 internal.pageNoArray[i] # 0 /\ internal.keyArray[i - 1] < key}
  IN IF hits = {} THEN internal.pageNoArray[0]
     ELSE internal.pageNoArray[CHOOSE i \in hits : \A j \in hits : j <= i]

\* keyArray[j] as the build reads it: keyArray[-1] is the int before the
\* array, the level field.
KeyAt(node, j) == IF j \in KeyIdx THEN node.keyArray[j] ELSE node.level

\* keyArray[j] = v as the build stores it: keyArray[nodeOccupancy] is one past
\* the array, where pageNoArray[0] lies.
SetKey(node, j, v, ub) ==
  IF j \in KeyIdx THEN [node EXCEPT !.keyArray[j] = v]
  ELSE IF j = nodeOccupancy /\ ub.oobStore THEN [node EXCEPT !.pageNoArray[0] = v]
  ELSE node

SetPage(node, j, v) ==
  IF j \in ChildIdx THEN [node EXCEPT !.pageNoArray[j] = v] ELSE node

RECURSIVE InsertInternalLoop(_, _, _, _)
InsertInternalLoop(internal, newEntry, i, ub) ==
  IF i < 0
    THEN [internal EXCEPT !.keyArray[0] = newEntry.key,
                          !.pageNoArray[1] = newEntry.pageNo]
    ELSE IF internal.pageNoArray[i] = 0
      THEN InsertInternalLoop(internal, newEntry, i - 1, ub)
      ELSE IF KeyAt(internal, i - 1) > newEntry.key
        THEN InsertInternalLoop(
               SetPage(SetKey(internal, i, KeyAt(internal, i - 1), ub),
                       i + 1, internal.pageNoArray[i]),
               newEntry, i - 1, ub)
        ELSE SetPage(SetKey(internal, i, newEntry.key, ub), i + 1, newEntry.pageNo)

insertInternal(internal, newEntry, ub) ==
  InsertInternalLoop(internal, newEntry, nodeOccupancy, ub)

----------------------------------------------------------------------------
(* The insert engine.                                                      *)

\* The header page is the first page the constructor allocates.
headerPageNum == 1

Raised(st) == st.exc # "none"

\* splitRoot without the unPinPage of the header page.
splitRootHeaderPinned(st, firstPage, newInternal) ==
  LET s1 == AllocPage(st, EmptyNonLeaf)
      newRootPageNum == Len(s1.pages)
      level == IF st.initialRootPageId = st.rootPageNum THEN 1 ELSE 0
      s2 == Access([s1 EXCEPT
                      !.pages[newRootPageNum].level = level,
                      !.pages[newRootPageNum].keyArray[0] = newInternal.key,
                      !.pages[newRootPageNum].pageNoArray[0] = firstPage,
                      !.pages[newRootPageNum].pageNoArray[1] = newInternal.pageNo],
                   newRootPageNum)
      s3 == ReadPage(s2, headerPageNum)
      s4 == Access([s3 EXCEPT !.pages[headerPageNum].rootPageNo = newRootPageNum,
                              !.rootPageNum = newRootPageNum],
                   headerPageNum)
  IN UnPinPage(s4, newRootPageNum, TRUE)

\* splitRoot without the store of the new root into the header page.
splitRootHeaderStale(st, firstPage, newInternal) ==
  LET s1 == AllocPage(st, EmptyNonLeaf)
      newRootPageNum == Len(s1.pages)
      level == IF st.initialRootPageId = st.rootPageNum THEN 1 ELSE 0
      s2 == Access([s1 EXCEPT
                      !.pages[newRootPageNum].level = level,
                      !.pages[newRootPageNum].keyArray[0] = newInternal.key,
                      !.pages[newRootPageNum].pageNoArray[0] = firstPage,
                      !.pages[newRootPageNum].pageNoArray[1] = newInternal.pageNo],
                   newRootPageNum)
      s3 == ReadPage(s2, headerPageNum)
      s4 == Access([s3 EXCEPT !.rootPageNum = newRootPageNum], headerPageNum)
      s5 == UnPinPage(s4, headerPageNum, TRUE)
  IN UnPinPage(s5, newRootPageNum, TRUE)

\* splitRoot without the store of the new root into rootPageNum.
splitRootSameRoot(st, firstPage, newInternal) ==
  LET s1 == AllocPage(st, EmptyNonLeaf)
      newRootPageNum == Len(s1.pages)
      level == IF st.initialRootPageId = st.rootPageNum THEN 1 ELSE 0
      s2 == Access([s1 EXCEPT
                      !.pages[newRootPageNum].level = level,
                      !.pages[newRootPageNum].keyArray[0] = newInternal.key,
                      !.pages[newRootPageNum].pageNoArray[0] = firstPage,
                      !.pages[newRootPageNum].pageNoArray[1] = newInternal.pageNo],
                   newRootPageNum)
      s3 == ReadPage(s2, headerPageNum)
      s4 == Access([s3 EXCEPT !.pages[headerPageNum].rootPageNo = newRootPageNum],
                   headerPageNum)
      s5 == UnPinPage(s4, headerPageNum, TRUE)
  IN UnPinPage(s5, newRootPageNum, TRUE)

\* splitRoot giving every new root the level of a parent of leaves.
splitRootLevelOne(st, firstPage, newInternal) ==
  LET s1 == AllocPage(st, EmptyNonLeaf)
      newRootPageNum == Len(s1.pages)
      s2 == Access([s1 EXCEPT
                      !.pages[newRootPageNum].level = 1,
                      !.pages[newRootPageNum].keyArray[0] = newInternal.key,
                      !.pages[newRootPageNum].pageNoArray[0] = firstPage,
                      !.pages[newRootPageNum].pageNoArray[1] = newInternal.pageNo],
                   newRootPageNum)
      s3 == ReadPage(s2, headerPageNum)
      s4 == Access([s3 EXCEPT !.pages[headerPageNum].rootPageNo = newRootPageNum,
                              !.rootPageNum = newRootPageNum],
                   headerPageNum)
      s5 == UnPinPage(s4, headerPageNum, TRUE)
  IN UnPinPage(s5, newRootPageNum, TRUE)

\* splitRoot with the header written before the new root is filled in.
splitRootHeaderFirst(st, firstPage, newInternal) ==
  LET s1 == AllocPage(st, EmptyNonLeaf)
      newRootPageNum == Len(s1.pages)
      level == IF st.initialRootPageId = st.rootPageNum THEN 1 ELSE 0
      s2 == ReadPage(s1, headerPageNum)
      s3 == Access([s2 EXCEPT !.pages[headerPageNum].rootPageNo = newRootPageNum,
                              !.rootPageNum = newRootPageNum],
                   headerPageNum)
      s4 == UnPinPage(s3, headerPageNum, TRUE)
      s5 == Access([s4 EXCEPT
                      !.pages[newRootPageNum].level = level,
                      !.pages[newRootPageNum].keyArray[0] = newInternal.key,
                      !.pages[newRootPageNum].pageNoArray[0] = firstPage,
                      !.pages[newRootPageNum].pageNoArray[1] = newInternal.pageNo],
                   newRootPageNum)
  IN UnPinPage(s5, newRootPageNum, TRUE)

splitRoot(st, firstPage, newInternal) ==
  LET s1 == AllocPage(st, EmptyNonLeaf)
      newRootPageNum == Len(s1.pages)
      level == IF st.initialRootPageId = st.rootPageNum THEN 1 ELSE 0
      s2 == Access([s1 EXCEPT
                      !.pages[newRootPageNum].level = level,
                      !.pages[newRootPageNum].keyArray[0] = newInternal.key,
                      !.pages[newRootPageNum].pageNoArray[0] = firstPage,
                      !.pages[newRootPageNum].pageNoArray[1] = newInternal.pageNo],
                   newRootPageNum)
      s3 == ReadPage(s2, headerPageNum)
      s4 == Access([s3 EXCEPT !.pages[headerPageNum].rootPageNo = newRootPageNum,
                              !.rootPageNum = newRootPageNum],
                   headerPageNum)
      s5 == UnPinPage(s4, headerPageNum, TRUE)
  IN UnPinPage(s5, newRootPageNum, TRUE)

\* The slot from which splitLeaf moves entries to the new leaf.
LeafMid ==
  IF leafOccupancy % 2 = 1 THEN leafOccupancy \div 2 ELSE leafOccupancy \div 2 + 1

\* splitLeaf making the old leaf the right sibling of the new one.
splitLeafSiblingBack(st, leafPageId, newEntry) ==
  LET s1 == AllocPage(st, EmptyLeaf)
      newPageId == Len(s1.pages)
      leaf == s1.pages[leafPageId]
      mid == LeafMid
      moved == [EmptyLeaf EXCEPT
                  !.keyArray = [i \in LeafIdx |->
                     IF i + mid \in LeafIdx THEN leaf.keyArray[i + mid] ELSE 0],
                  !.ridArray = [i \in LeafIdx |->
                     IF i + mid \in LeafIdx THEN leaf.ridArray[i + mid] ELSE NoRid]]
      kept == [leaf EXCEPT
                  !.keyArray = [i \in LeafIdx |-> IF i >= mid THEN 0 ELSE leaf.keyArray[i]],
                  !.ridArray = [i \in LeafIdx |->
                     IF i >= mid THEN [leaf.ridArray[i] EXCEPT !.page_number = 0]
                     ELSE leaf.ridArray[i]]]
      toNew == newEntry.key > kept.keyArray[mid - 1]
      newLeaf1 == IF toNew THEN insertLeaf(moved, newEntry) ELSE moved
      leaf1 == IF toNew THEN kept ELSE insertLeaf(kept, newEntry)
      newLeaf2 == [newLeaf1 EXCEPT !.rightSibPageNo = leafPageId]
      leaf2 == [leaf1 EXCEPT !.rightSibPageNo = newPageId]
      newKeyPair == [set |-> TRUE, pageNo |-> newPageId,
                     key |-> newLeaf2.keyArray[0], dangling |-> FALSE]
      s2 == Access(Access([s1 EXCEPT !.pages[leafPageId] = leaf2,
                                     !.pages[newPageId] = newLeaf2,
                                     !.newInternal = newKeyPair],
                          leafPageId), newPageId)
      s3 == IF leafPageId = s2.rootPageNum
              THEN splitRoot(s2, leafPageId, newKeyPair) ELSE s2
      s4 == UnPinPage(s3, leafPageId, TRUE)
      s5 == UnPinPage(s4, newPageId, TRUE)
  IN \* newKeyPair is a local of this frame: newInternal dangles from here on
     [s5 EXCEPT !.newInternal.dangling = TRUE]

splitLeaf(st, leafPageId, newEntry) ==
  LET s1 == AllocPage(st, EmptyLeaf)
      newPageId == Len(s1.pages)
      leaf == s1.pages[leafPageId]
      mid == LeafMid
      moved == [EmptyLeaf EXCEPT
                  !.keyArray = [i \in LeafIdx |->
                     IF i + mid \in LeafIdx THEN leaf.keyArray[i + mid] ELSE 0],
                  !.ridArray = [i \in LeafIdx |->
                     IF i + mid \in LeafIdx THEN leaf.ridArray[i + mid] ELSE NoRid]]
      kept == [leaf EXCEPT
                  !.keyArray = [i \in LeafIdx |-> IF i >= mid THEN 0 ELSE leaf.keyArray[i]],
                  !.ridArray = [i \in LeafIdx |->
                     IF i >= mid THEN [leaf.ridArray[i] EXCEPT !.page_number = 0]
                     ELSE leaf.ridArray[i]]]
      toNew == newEntry.key > kept.keyArray[mid - 1]
      newLeaf1 == IF toNew THEN insertLeaf(moved, newEntry) ELSE moved
      leaf1 == IF toNew THEN kept ELSE insertLeaf(kept, newEntry)
      newLeaf2 == [newLeaf1 EXCEPT !.rightSibPageNo = leaf1.rightSibPageNo]
      leaf2 == [leaf1 EXCEPT !.rightSibPageNo = newPageId]
      newKeyPair == [set |-> TRUE, pageNo |-> newPageId,
                     key |-> newLeaf2.keyArray[0], dangling |-> FALSE]
      s2 == Access(Access([s1 EXCEPT !.pages[leafPageId] = leaf2,
                                     !.pages[newPageId] = newLeaf2,
                                     !.newInternal = newKeyPair],
                          leafPageId), newPageId)
      s3 == IF leafPageId = s2.rootPageNum
              THEN splitRoot(s2, leafPageId, newKeyPair) ELSE s2
      s4 == UnPinPage(s3, leafPageId, TRUE)
      s5 == UnPinPage(s4, newPageId, TRUE)
  IN \* newKeyPair is a local of this frame: newInternal dangles from here on
     [s5 EXCEPT !.newInternal.dangling = TRUE]

\* The index of the key splitInternal pushes up.
PushupIndex(oldNode, key) ==
  LET mid == nodeOccupancy \div 2 IN
  IF nodeOccupancy % 2 = 0
    THEN IF key < oldNode.keyArray[mid] THEN mid - 1 ELSE mid
    ELSE mid

\* The move loop of splitInternal from index i on; nodes = <<oldNode, newNode>>.
RECURSIVE MoveLoop(_, _, _, _)
MoveLoop(nodes, mid, i, ub) ==
  IF i >= nodeOccupancy THEN nodes
  ELSE
    LET oldNode == nodes[1]
        newNode == nodes[2]
        new1 == [newNode EXCEPT !.keyArray[i - mid] = oldNode.keyArray[i],
                                !.pageNoArray[i - mid] = oldNode.pageNoArray[i + 1]]
        old1 == SetKey(SetPage(oldNode, i + 1, 0), i + 1, 0, ub)
    IN MoveLoop(<<old1, new1>>, mid, i + 1, ub)

\* splitInternal without the call of splitRoot.
splitInternalNoPromotion(st, oldPageId, ub) ==
  LET s1 == AllocPage(st, EmptyNonLeaf)
      newPageId == Len(s1.pages)
      pending == Deref(st.newInternal, ub)
      oldNode == s1.pages[oldPageId]
      pushupIndex == PushupIndex(oldNode, pending.key)
      pushupEntry == [set |-> TRUE, pageNo |-> newPageId,
                      key |-> oldNode.keyArray[pushupIndex], dangling |-> FALSE]
      mid == pushupIndex + 1
      movedNodes == MoveLoop(<<oldNode, s1.pages[newPageId]>>, mid, mid, ub)
      newNode1 == [movedNodes[2] EXCEPT !.level = oldNode.level]
      oldNode1 == [movedNodes[1] EXCEPT !.keyArray[pushupIndex] = 0,
                                        !.pageNoArray[pushupIndex] = 0]
      intoOld == pending.key < newNode1.keyArray[0]
      oldNode2 == IF intoOld THEN insertInternal(oldNode1, pending, ub) ELSE oldNode1
      newNode2 == IF intoOld THEN newNode1 ELSE insertInternal(newNode1, pending, ub)
      s2 == Access(Access([s1 EXCEPT !.pages[oldPageId] = oldNode2,
                                     !.pages[newPageId] = newNode2,
                                     !.newInternal = pushupEntry],
                          oldPageId), newPageId)
      s3 == s2
      s4 == UnPinPage(s3, oldPageId, TRUE)
      s5 == UnPinPage(s4, newPageId, TRUE)
  IN \* pushupEntry is a local of this frame: newInternal dangles from here on
     [s5 EXCEPT !.newInternal.dangling = TRUE]

splitInternal(st, oldPageId, ub) ==
  LET s1 == AllocPage(st, EmptyNonLeaf)
      newPageId == Len(s1.pages)
      pending == Deref(st.newInternal, ub)
      oldNode == s1.pages[oldPageId]
      pushupIndex == PushupIndex(oldNode, pending.key)
      pushupEntry == [set |-> TRUE, pageNo |-> newPageId,
                      key |-> oldNode.keyArray[pushupIndex], dangling |-> FALSE]
      mid == pushupIndex + 1
      movedNodes == MoveLoop(<<oldNode, s1.pages[newPageId]>>, mid, mid, ub)
      newNode1 == [movedNodes[2] EXCEPT !.level = oldNode.level]
      oldNode1 == [movedNodes[1] EXCEPT !.keyArray[pushupIndex] = 0,
                                        !.pageNoArray[pushupIndex] = 0]
      intoOld == pending.key < newNode1.keyArray[0]
      oldNode2 == IF intoOld THEN insertInternal(oldNode1, pending, ub) ELSE oldNode1
      newNode2 == IF intoOld THEN newNode1 ELSE insertInternal(newNode1, pending, ub)
      s2 == Access(Access([s1 EXCEPT !.pages[oldPageId] = oldNode2,
                                     !.pages[newPageId] = newNode2,
                                     !.newInternal = pushupEntry],
                          oldPageId), newPageId)
      s3 == IF oldPageId = s2.rootPageNum
              THEN splitRoot(s2, oldPageId, pushupEntry) ELSE s2
      s4 == UnPinPage(s3, oldPageId, TRUE)
      s5 == UnPinPage(s4, newPageId, TRUE)
  IN \* pushupEntry is a local of this frame: newInternal dangles from here on
     [s5 EXCEPT !.newInternal.dangling = TRUE]

\* insert without the reset of newInternal by the node that takes the entry.
RECURSIVE insertKeepsPending(_, _, _, _, _)
insertKeepsPending(st, currPageId, isLeaf, newEntry, ub) ==
  IF isLeaf
    THEN
      LET s1 == Access(st, currPageId)
          leaf == st.pages[currPageId]
      IN IF leaf.ridArray[leafOccupancy - 1].page_number = 0
           THEN UnPinPage([s1 EXCEPT !.pages[currPageId] = insertLeaf(leaf, newEntry)],
                          currPageId, TRUE)
           ELSE splitLeaf(s1, currPageId, newEntry)
    ELSE
      LET currNode == st.pages[currPageId]
          nextNodeId == findNextInternal(currNode, newEntry.key)
          s1 == ReadPage(Access(st, currPageId), nextNodeId)
      IN IF Raised(s1) THEN s1
         ELSE
           LET s2 == insertKeepsPending(s1, nextNodeId, currNode.level # 0, newEntry, ub)
               s3 == Access(s2, currPageId)
               node == s2.pages[currPageId]
           IN IF Raised(s2) THEN s2
              ELSE IF ~s2.newInternal.set
                THEN UnPinPage(s2, currPageId, FALSE)
                ELSE IF node.pageNoArray[nodeOccupancy] = 0
                  THEN UnPinPage(
                         [s3 EXCEPT !.pages[currPageId] =
                                       insertInternal(node, Deref(s2.newInternal, ub), ub),
                                    !.ubRead = TRUE],
                         currPageId, TRUE)
                  ELSE splitInternal([s3 EXCEPT !.ubRead = TRUE], currPageId, ub)

\* insert unpinning dirty a node whose child did not split.
RECURSIVE insertUnpinsDirty(_, _, _, _, _)
insertUnpinsDirty(st, currPageId, isLeaf, newEntry, ub) ==
  IF isLeaf
    THEN
      LET s1 == Access(st, currPageId)
          leaf == st.pages[currPageId]
      IN IF leaf.ridArray[leafOccupancy - 1].page_number = 0
           THEN UnPinPage([s1 EXCEPT !.pages[currPageId] = insertLeaf(leaf, newEntry)],
                          currPageId, TRUE)
           ELSE splitLeaf(s1, currPageId, newEntry)
    ELSE
      LET currNode == st.pages[currPageId]
          nextNodeId == findNextInternal(currNode, newEntry.key)
          s1 == ReadPage(Access(st, currPageId), nextNodeId)
      IN IF Raised(s1) THEN s1
         ELSE
           LET s2 == insertUnpinsDirty(s1, nextNodeId, currNode.level # 0, newEntry, ub)
               s3 == Access(s2, currPageId)
               node == s2.pages[currPageId]
           IN IF Raised(s2) THEN s2
              ELSE IF ~s2.newInternal.set
                THEN UnPinPage(s2, currPageId, TRUE)
                ELSE IF node.pageNoArray[nodeOccupancy] = 0
                  THEN UnPinPage(
                         [s3 EXCEPT !.pages[currPageId] =
                                       insertInternal(node, Deref(s2.newInternal, ub), ub),
                                    !.newInternal = NullInternal,
                                    !.ubRead = TRUE],
                         currPageId, TRUE)
                  ELSE splitInternal([s3 EXCEPT !.ubRead = TRUE], currPageId, ub)

RECURSIVE insert(_, _, _, _, _)
insert(st, currPageId, isLeaf, newEntry, ub) ==
  IF isLeaf
    THEN
      LET s1 == Access(st, currPageId)
          leaf == st.pages[currPageId]
      IN IF leaf.ridArray[leafOccupancy - 1].page_number = 0
           THEN UnPinPage([s1 EXCEPT !.pages[currPageId] = insertLeaf(leaf, newEntry)],
                          currPageId, TRUE)
           ELSE splitLeaf(s1, currPageId, newEntry)
    ELSE
      LET currNode == st.pages[currPageId]
          nextNodeId == findNextInternal(currNode, newEntry.key)
          s1 == ReadPage(Access(st, currPageId), nextNodeId)
      IN IF Raised(s1) THEN s1
         ELSE
           LET s2 == insert(s1, nextNodeId, currNode.level # 0, newEntry, ub)
               s3 == Access(s2, currPageId)
               node == s2.pages[currPageId]
           IN IF Raised(s2) THEN s2
              ELSE IF ~s2.newInternal.set
                THEN UnPinPage(s2, currPageId, FALSE)
                ELSE IF node.pageNoArray[nodeOccupancy] = 0
                  THEN UnPinPage(
                         [s3 EXCEPT !.pages[currPageId] =
                                       insertInternal(node, Deref(s2.newInternal, ub), ub),
                                    !.newInternal = NullInternal,
                                    !.ubRead = TRUE],
                         currPageId, TRUE)
                  ELSE splitInternal([s3 EXCEPT !.ubRead = TRUE], currPageId, ub)

\* insertEntry looking the root up in the header page at every call.
insertEntryViaHeader(st, key, rid, ub) ==
  LET newEntry == [key |-> key, rid |-> rid]
      s0 == UnPinPage(Access(ReadPage([st EXCEPT !.newInternal = NullInternal],
                                      headerPageNum),
                             headerPageNum),
                      headerPageNum, FALSE)
      s1 == ReadPage(s0, st.rootPageNum)
  IN IF Raised(s1) THEN s1
     ELSE insert(s1, st.rootPageNum, st.initialRootPageId = st.rootPageNum, newEntry, ub)

\* insertEntry, as a function of the engine state.
insertEntry(st, key, rid, ub) ==
  LET newEntry == [key |-> key, rid |-> rid]
      s0 == [st EXCEPT !.newInternal = NullInternal]
      s1 == ReadPage(s0, st.rootPageNum)
  IN IF Raised(s1) THEN s1
     ELSE insert(s1, st.rootPageNum, st.initialRootPageId = st.rootPageNum, newEntry, ub)

----------------------------------------------------------------------------
(* The scan engine, on a scan state                                        *)
(*   sc = [pages, pinCnt, trace, exc, rootPageNum, initialRootPageId,      *)
(*         scanExecuting, lowValInt, highValInt, lowOp, highOp,            *)
(*         currentPageNum, nextEntry, outRid, outKey, chainEnd].           *)
(* outKey is the key of the entry scanNext delivered; chainEnd tells that  *)
(* scanNext raised IndexScanCompleted for want of a right sibling.         *)

\* The value of a member the constructor leaves unset.
Uninit == IntMin - 1

\* static_cast<PageId>(-1)
NoPage == 0 - 1

\* What a scan call's undefined reads yield: the index an unset nextEntry
\* holds, and the slot found at an index outside the leaf's arrays.
ScanUBChoices == [idx : (0 - 1) .. leafOccupancy, occupied : BOOLEAN, key : Int32]

NoScanUB == [idx |-> 0, occupied |-> FALSE, key |-> 0]

GarbageRid == [page_number |-> MaxInserts + 1, slot_number |-> 0]

validKey(key, lo, loOp, hi, hiOp) ==
  IF loOp = "GTE" /\ hiOp = "LTE" THEN key <= hi /\ key >= lo
  ELSE IF loOp = "GT" /\ hiOp = "LTE" THEN key <= hi /\ key > lo
  ELSE IF loOp = "GTE" /\ hiOp = "LT" THEN key < hi /\ key >= lo
  ELSE key < hi /\ key > lo

\* The key is invalid and every later key is too.
pastHigh(key, hi, hiOp) ==
  (hiOp = "LT" /\ key >= hi) \/ (hiOp = "LTE" /\ key > hi)

\* endScan without the reset of scanExecuting.
endScanStillExecuting(sc) ==
  IF ~sc.scanExecuting THEN [sc EXCEPT !.exc = "ScanNotInitialized"]
  ELSE
    LET s1 == UnPinPage(sc, sc.currentPageNum, FALSE)
    IN [s1 EXCEPT !.exc = "none",
                  !.nextEntry = 0 - 1,
                  !.currentPageNum = NoPage]

endScan(sc) ==
  IF ~sc.scanExecuting THEN [sc EXCEPT !.exc = "ScanNotInitialized"]
  ELSE
    LET s1 == UnPinPage(sc, sc.currentPageNum, FALSE)
    IN [s1 EXCEPT !.exc = "none",   \* PageNotPinnedException is caught
                  !.nextEntry = 0 - 1,
                  !.scanExecuting = FALSE,
                  !.currentPageNum = NoPage]

\* The child startScan descends to from an interior node.
ScanChildIndex(currNode, lowVal) ==
  LET occupied == {i \in ChildIdx : currNode.pageNoArray[i] # 0}
      top == IF occupied = {} THEN 0 - 1
             ELSE CHOOSE i \in occupied : \A j \in occupied : j <= i
      stops == {i \in 0 .. top : i = 0 \/ ~(currNode.keyArray[i - 1] >= lowVal)}
  IN IF top < 0 THEN top ELSE CHOOSE i \in stops : \A j \in stops : j <= i

\* pageNoArray[-1] is the int before the array, keyArray[nodeOccupancy - 1].
ChildAt(currNode, i) ==
  IF i \in ChildIdx THEN currNode.pageNoArray[i]
  ELSE currNode.keyArray[nodeOccupancy - 1]

\* The descent loop without the unPinPage of the node it leaves.
RECURSIVE DescendPinned(_)
DescendPinned(sc) ==
  LET currNode == sc.pages[sc.currentPageNum]
      leafFound == currNode.level # 0
      nextNode == ChildAt(currNode, ScanChildIndex(currNode, sc.lowValInt))
      s1 == Access(sc, sc.currentPageNum)
      s2 == ReadPage([s1 EXCEPT !.currentPageNum = nextNode], nextNode)
  IN IF Raised(s2) \/ leafFound THEN s2 ELSE DescendPinned(s2)

\* The descent loop of startScan; the page currentPageNum is pinned.
RECURSIVE Descend(_)
Descend(sc) ==
  LET currNode == sc.pages[sc.currentPageNum]
      leafFound == currNode.level # 0
      nextNode == ChildAt(currNode, ScanChildIndex(currNode, sc.lowValInt))
      s1 == UnPinPage(Access(sc, sc.currentPageNum), sc.currentPageNum, FALSE)
      s2 == ReadPage([s1 EXCEPT !.currentPageNum = nextNode], nextNode)
  IN IF Raised(s2) \/ leafFound THEN s2 ELSE Descend(s2)

\* The for loop of startScan over one leaf, from slot i:
\* "found", "none" (past the high bound) or "next" (go to the sibling).
RECURSIVE LeafLoop(_, _, _)
LeafLoop(sc, currLeaf, i) ==
  LET key == currLeaf.keyArray[i]
      noVal == i < leafOccupancy - 1 /\ currLeaf.ridArray[i + 1].page_number = 0
  IN IF validKey(key, sc.lowValInt, sc.lowOp, sc.highValInt, sc.highOp)
       THEN [how |-> "found", i |-> i]
     ELSE IF pastHigh(key, sc.highValInt, sc.highOp)
       THEN [how |-> "none", i |-> i]
     ELSE IF i = leafOccupancy - 1 \/ noVal
       THEN [how |-> "next", i |-> i]
     ELSE LeafLoop(sc, currLeaf, i + 1)

\* The while loop of startScan; the page currentPageNum is pinned.
RECURSIVE LeafSearch(_)
LeafSearch(sc) ==
  LET currLeaf == sc.pages[sc.currentPageNum]
      s1 == Access(sc, sc.currentPageNum)
  IN IF currLeaf.ridArray[0].page_number = 0
       THEN [UnPinPage(s1, sc.currentPageNum, FALSE) EXCEPT !.exc = "NoSuchKeyFound"]
     ELSE
       LET r == LeafLoop(sc, currLeaf, 0) IN
       IF r.how = "found" THEN [s1 EXCEPT !.nextEntry = r.i, !.scanExecuting = TRUE]
       ELSE IF r.how = "none"
         THEN [UnPinPage(s1, sc.currentPageNum, FALSE) EXCEPT !.exc = "NoSuchKeyFound"]
       ELSE
         \* the page is unpinned, then its rightSibPageNo is read
         LET s2 == Access(UnPinPage(s1, sc.currentPageNum, FALSE), sc.currentPageNum)
         IN IF currLeaf.rightSibPageNo = 0
              THEN [s2 EXCEPT !.exc = "NoSuchKeyFound"]
              ELSE LET s3 == ReadPage([s2 EXCEPT !.currentPageNum = currLeaf.rightSibPageNo],
                                      currLeaf.rightSibPageNo)
                   IN IF Raised(s3) THEN s3 ELSE LeafSearch(s3)

\* startScan with the range check before the operator check.
startScanRangeFirst(sc, lowValParm, lowOpParm, highValParm, highOpParm) ==
  LET s0 == [sc EXCEPT !.lowValInt = lowValParm, !.highValInt = highValParm] IN
  IF lowValParm > highValParm
    THEN [s0 EXCEPT !.exc = "BadScanrange"]
  ELSE IF ~(lowOpParm \in {"GT", "GTE"} /\ highOpParm \in {"LT", "LTE"})
    THEN [s0 EXCEPT !.exc = "BadOpcodes"]
  ELSE
    LET s1 == IF s0.scanExecuting THEN endScan(s0) ELSE s0
        s2 == ReadPage([s1 EXCEPT !.scanExecuting = TRUE,
                                  !.lowOp = lowOpParm,
                                  !.highOp = highOpParm,
                                  !.currentPageNum = sc.rootPageNum],
                       sc.rootPageNum)
        s3 == IF Raised(s2) \/ sc.initialRootPageId = sc.rootPageNum
                THEN s2 ELSE Descend(s2)
    IN IF Raised(s3) THEN s3 ELSE LeafSearch(s3)

\* startScan refusing low = high as well.
startScanEqualRefused(sc, lowValParm, lowOpParm, highValParm, highOpParm) ==
  LET s0 == [sc EXCEPT !.lowValInt = lowValParm, !.highValInt = highValParm] IN
  IF ~(lowOpParm \in {"GT", "GTE"} /\ highOpParm \in {"LT", "LTE"})
    THEN [s0 EXCEPT !.exc = "BadOpcodes"]
  ELSE IF lowValParm >= highValParm
    THEN [s0 EXCEPT !.exc = "BadScanrange"]
  ELSE
    LET s1 == IF s0.scanExecuting THEN endScan(s0) ELSE s0
        s2 == ReadPage([s1 EXCEPT !.scanExecuting = TRUE,
                                  !.lowOp = lowOpParm,
                                  !.highOp = highOpParm,
                                  !.currentPageNum = sc.rootPageNum],
                       sc.rootPageNum)
        s3 == IF Raised(s2) \/ sc.initialRootPageId = sc.rootPageNum
                THEN s2 ELSE Descend(s2)
    IN IF Raised(s3) THEN s3 ELSE LeafSearch(s3)

\* startScan without the endScan of the scan that is executing.
startScanNoEndScan(sc, lowValParm, lowOpParm, highValParm, highOpParm) ==
  LET s0 == [sc EXCEPT !.lowValInt = lowValParm, !.highValInt = highValParm] IN
  IF ~(lowOpParm \in {"GT", "GTE"} /\ highOpParm \in {"LT", "LTE"})
    THEN [s0 EXCEPT !.exc = "BadOpcodes"]
  ELSE IF lowValParm > highValParm
    THEN [s0 EXCEPT !.exc = "BadScanrange"]
  ELSE
    LET s2 == ReadPage([s0 EXCEPT !.scanExecuting = TRUE,
                                  !.lowOp = lowOpParm,
                                  !.highOp = highOpParm,
                                  !.currentPageNum = sc.rootPageNum],
                       sc.rootPageNum)
        s3 == IF Raised(s2) \/ sc.initialRootPageId = sc.rootPageNum
                THEN s2 ELSE Descend(s2)
    IN IF Raised(s3) THEN s3 ELSE LeafSearch(s3)

startScan(sc, lowValParm, lowOpParm, highValParm, highOpParm) ==
  LET s0 == [sc EXCEPT !.lowValInt = lowValParm, !.highValInt = highValParm] IN
  IF ~(lowOpParm \in {"GT", "GTE"} /\ highOpParm \in {"LT", "LTE"})
    THEN [s0 EXCEPT !.exc = "BadOpcodes"]
  ELSE IF lowValParm > highValParm
    THEN [s0 EXCEPT !.exc = "BadScanrange"]
  ELSE
    LET s1 == IF s0.scanExecuting THEN endScan(s0) ELSE s0
        s2 == ReadPage([s1 EXCEPT !.scanExecuting = TRUE,
                                  !.lowOp = lowOpParm,
                                  !.highOp = highOpParm,
                                  !.currentPageNum = sc.rootPageNum],
                       sc.rootPageNum)
        s3 == IF Raised(s2) \/ sc.initialRootPageId = sc.rootPageNum
                THEN s2 ELSE Descend(s2)
    IN IF Raised(s3) THEN s3 ELSE LeafSearch(s3)

\* The leaf currentPageData points to; when currentPageNum names no page of
\* the file the pointer is stale and the bytes read through it are unknown.
ScanLeaf(sc, ub) ==
  IF ValidPage(sc, sc.currentPageNum) /\ sc.pages[sc.currentPageNum].kind = "leaf"
    THEN sc.pages[sc.currentPageNum]
    ELSE [EmptyLeaf EXCEPT
            !.keyArray = [i \in LeafIdx |-> ub.key],
            !.ridArray = [i \in LeafIdx |-> IF ub.occupied THEN GarbageRid ELSE NoRid]]

scanNext(sc, ub) ==
  IF ~sc.scanExecuting THEN [sc EXCEPT !.exc = "ScanNotInitialized"]
  ELSE
    LET node == ScanLeaf(sc, ub)
        idx == IF sc.nextEntry = Uninit THEN ub.idx ELSE sc.nextEntry
        s1 == Access(sc, sc.currentPageNum)
        slotEmpty == IF idx \in LeafIdx THEN node.ridArray[idx].page_number = 0
                     ELSE idx = leafOccupancy \/ ~ub.occupied
    IN IF slotEmpty
         THEN
           LET s2 == UnPinPage(s1, sc.currentPageNum, FALSE) IN
           IF Raised(s2) THEN s2
           ELSE
             \* the page is unpinned, then its rightSibPageNo is read
             LET s3 == Access(s2, sc.currentPageNum) IN
             IF node.rightSibPageNo = 0
               THEN [s3 EXCEPT !.exc = "IndexScanCompleted", !.chainEnd = TRUE]
               ELSE
                 LET s4 == ReadPage([s3 EXCEPT !.currentPageNum = node.rightSibPageNo],
                                    node.rightSibPageNo)
                     next == ScanLeaf(s4, ub)
                     s5 == Access([s4 EXCEPT !.nextEntry = 0], s4.currentPageNum)
                 IN IF Raised(s4) THEN s4
                    ELSE IF validKey(next.keyArray[0], sc.lowValInt, sc.lowOp,
                                     sc.highValInt, sc.highOp)
                      THEN [s5 EXCEPT !.outRid = next.ridArray[0],
                                      !.outKey = next.keyArray[0],
                                      !.nextEntry = 1]
                      ELSE [s5 EXCEPT !.exc = "IndexScanCompleted"]
         ELSE
           LET key == IF idx \in LeafIdx THEN node.keyArray[idx] ELSE ub.key
               rid == IF idx \in LeafIdx THEN node.ridArray[idx] ELSE GarbageRid
           IN IF validKey(key, sc.lowValInt, sc.lowOp, sc.highValInt, sc.highOp)
                THEN [s1 EXCEPT !.outRid = rid, !.outKey = key, !.nextEntry = idx + 1]
                ELSE [s1 EXCEPT !.exc = "IndexScanCompleted"]

----------------------------------------------------------------------------
(* Closing and reopening the index, on a scan state.                       *)

\* flushFile: raises when a page of the file is still pinned.
FlushFile(st) ==
  LET pinned == \E p \in DOMAIN st.pinCnt : st.pinCnt[p] > 0 IN
  [st EXCEPT !.exc = IF pinned THEN "PagePinned" ELSE "none",
             !.trace = Append(@, Event("flushFile", 0, FALSE, 0))]

\* ~BTreeIndex; an exception of flushFile leaves the destructor.
destructor(sc) ==
  LET s1 == endScan(sc)
      s2 == [s1 EXCEPT !.exc = "none"]   \* ScanNotInitializedException is caught
  IN FlushFile(s2)

Datatypes == {"INTEGER", "DOUBLE", "STRING"}

\* The constructor arguments that are compared with the header page.
OpenArgs == [relationName : {"relA", "relB"}, attrByteOffset : {0, 4},
             attrType : Datatypes]

\* The constructor from the moment BlobFile has opened the existing file.  The
\* members of the new object that it does not assign are left as sc has them.
BTreeIndexOpen(sc, relationName, attrByteOffset, attrType) ==
  LET s0 == [sc EXCEPT !.scanExecuting = FALSE]
      s1 == ReadPage(s0, headerPageNum)
      meta == sc.pages[headerPageNum]
      s2 == Access([s1 EXCEPT !.rootPageNum = meta.rootPageNo], headerPageNum)
  IN IF relationName # meta.relationName \/ attrType # meta.attrType
          \/ attrByteOffset # meta.attrByteOffset
       THEN [s2 EXCEPT !.exc = "BadIndexInfo"]
       ELSE UnPinPage(s2, headerPageNum, FALSE)

----------------------------------------------------------------------------
(* The state.                                                              *)

VARIABLES
  pages,              \* the index file: page id -> page contents
  pinCnt,             \* the buffer manager's pin count of each page
  rootPageNum,        \* BTreeIndex::rootPageNum
  initialRootPageId,  \* BTreeIndex::initialRootPageId
  scanExecuting,      \* BTreeIndex::scanExecuting
  lowValInt, highValInt, lowOp, highOp,
  currentPageNum,     \* BTreeIndex::currentPageNum (currentPageData points to it)
  nextEntry,          \* BTreeIndex::nextEntry
  lastOp,             \* the last call: its name
  result,             \* how the last call ended: "ok" or the exception raised
  outRid,             \* the caller's outRid after the last call: the rid
                      \* scanNext delivered, NoRid after any other call
  trace,              \* buffer-manager calls and page accesses of the last call
  inserted,           \* history: the entries of the completed insertEntry calls
  insertCalls,        \* history: number of insertEntry calls
  scanPins,           \* history: pins taken and not released by the scan calls
  scanPhase           \* history: where the scan stands, see ScanPhases

engineVars ==
  <<pages, pinCnt, rootPageNum, initialRootPageId, scanExecuting, lowValInt,
    highValInt, lowOp, highOp, currentPageNum, nextEntry>>

scanVars ==
  <<scanExecuting, lowValInt, highValInt, lowOp, highOp, currentPageNum, nextEntry>>

historyVars == <<inserted, insertCalls, scanPins, scanPhase>>

\* "none": no scan; "open": startScan returned normally; "completed": scanNext
\* raised IndexScanCompleted on a key that fails the predicate; "released":
\* scanNext raised IndexScanCompleted at the end of the leaf chain; "failed":
\* startScan raised after it had set scanExecuting.
ScanPhases == {"none", "open", "completed", "released", "failed"}

vars == <<engineVars, lastOp, result, outRid, trace, historyVars>>

\* The constructor on a file that does not exist yet, over an empty relation.
Init ==
  /\ pages = <<MetaPage(2), EmptyLeaf>>
  /\ pinCnt = <<0, 0>>
  /\ rootPageNum = 2
  /\ initialRootPageId = 2
  /\ scanExecuting = FALSE
  /\ lowValInt = Uninit
  /\ highValInt = Uninit
  /\ lowOp = "GT"
  /\ highOp = "LT"
  /\ currentPageNum = Uninit
  /\ nextEntry = Uninit
  /\ lastOp = "BTreeIndex"
  /\ result = "ok"
  /\ outRid = NoRid
  /\ trace = <<Event("allocPage", 1, FALSE, 1), Event("allocPage", 2, FALSE, 1),
               Event("access", 1, FALSE, 1),
               Event("unPinPage", 1, TRUE, 0), Event("unPinPage", 2, TRUE, 0)>>
  /\ inserted = <<>>
  /\ insertCalls = 0
  /\ scanPins = <<0, 0>>
  /\ scanPhase = "none"

EngineState ==
  [pages |-> pages, pinCnt |-> pinCnt, rootPageNum |-> rootPageNum,
   initialRootPageId |-> initialRootPageId, trace |-> <<>>, exc |-> "none",
   newInternal |-> NullInternal, ubRead |-> FALSE]

\* scanPins grown to the pages of the file.
PadPins(pins, n) == [p \in 1 .. n |-> IF p \in DOMAIN pins THEN pins[p] ELSE 0]

\* insertEntry(key, rid) with a key of `keys`, at most maxCalls times in a
\* behaviour.  The rid is that of the next record of the relation.
InsertEntryUpTo(keys, maxCalls) ==
  /\ insertCalls < maxCalls
  /\ \E key \in keys :
     \E ub \in (IF insertEntry(EngineState, key, NoRid, Benign).ubRead
                 THEN UBChoices ELSE {Benign}) :
       LET rid == [page_number |-> insertCalls + 1, slot_number |-> 1]
           st == insertEntry(EngineState, key, rid, ub)
       IN /\ pages' = st.pages
          /\ pinCnt' = st.pinCnt
          /\ rootPageNum' = st.rootPageNum
          /\ trace' = st.trace
          /\ result' = IF Raised(st) THEN st.exc ELSE "ok"
          /\ lastOp' = "insertEntry"
          /\ inserted' = IF Raised(st) THEN inserted
                         ELSE Append(inserted, [key |-> key, rid |-> rid])
          /\ scanPins' = PadPins(scanPins, Len(st.pages))
  /\ insertCalls' = insertCalls + 1
  /\ outRid' = NoRid
  /\ UNCHANGED <<initialRootPageId, scanVars, scanPhase>>

\* Spec inserts the smallest and the largest key.
InsertEntry == InsertEntryUpTo({0, MaxKey}, MaxInserts)

TreeInsertEntry == InsertEntryUpTo(InsertKeys, MaxTreeInserts)

ScanState ==
  [pages |-> pages, pinCnt |-> pinCnt, trace |-> <<>>, exc |-> "none",
   rootPageNum |-> rootPageNum, initialRootPageId |-> initialRootPageId,
   scanExecuting |-> scanExecuting, lowValInt |-> lowValInt,
   highValInt |-> highValInt, lowOp |-> lowOp, highOp |-> highOp,
   currentPageNum |-> currentPageNum, nextEntry |-> nextEntry,
   outRid |-> NoRid, outKey |-> 0, chainEnd |-> FALSE]

\* The engine variables after a scan call that ended in sc.
SetScanState(sc) ==
  /\ pinCnt' = sc.pinCnt
  /\ scanExecuting' = sc.scanExecuting
  /\ lowValInt' = sc.lowValInt
  /\ highValInt' = sc.highValInt
  /\ lowOp' = sc.lowOp
  /\ highOp' = sc.highOp
  /\ currentPageNum' = sc.currentPageNum
  /\ nextEntry' = sc.nextEntry
  /\ outRid' = sc.outRid
  /\ trace' = sc.trace
  /\ result' = IF Raised(sc) THEN sc.exc ELSE "ok"
  /\ scanPins' = [p \in DOMAIN scanPins |-> scanPins[p] + sc.pinCnt[p] - pinCnt[p]]
  /\ UNCHANGED <<pages, rootPageNum, initialRootPageId, inserted, insertCalls>>

\* Every valid startScan call over Int32.
ValidCalls ==
  {c \in [lo : Int32, loOp : {"GT", "GTE"}, hi : Int32, hiOp : {"LT", "LTE"}] :
     c.lo <= c.hi}

\* The valid startScan calls of Spec: every operator pair, with bounds below,
\* at and above the keys.
ScanCalls ==
  {[lo |-> IntMin, loOp |-> "GTE", hi |-> IntMax, hiOp |-> "LTE"],
   [lo |-> IntMin, loOp |-> "GT", hi |-> MaxKey, hiOp |-> "LT"],
   [lo |-> IntMin, loOp |-> "GT", hi |-> MaxKey, hiOp |-> "LTE"],
   [lo |-> MaxKey, loOp |-> "GTE", hi |-> IntMax, hiOp |-> "LT"],
   [lo |-> MaxKey, loOp |-> "GTE", hi |-> MaxKey, hiOp |-> "LTE"],
   [lo |-> MaxKey, loOp |-> "GT", hi |-> IntMax, hiOp |-> "LT"]}

\* The refused startScan calls of Spec, after errorTests: a bad lowOp, a bad
\* highOp together with a bad range, and a bad range.
RefusedCalls ==
  {[lo |-> 0, loOp |-> "LTE", hi |-> MaxKey, hiOp |-> "LTE"],
   [lo |-> MaxKey, loOp |-> "GTE", hi |-> 0, hiOp |-> "GTE"],
   [lo |-> MaxKey, loOp |-> "GTE", hi |-> 0, hiOp |-> "LTE"]}

\* startScan with the arguments of one of `calls`.
StartScanOf(calls) ==
  \E c \in calls :
    LET sc == startScan(ScanState, c.lo, c.loOp, c.hi, c.hiOp)
        refused == sc.exc \in {"BadOpcodes", "BadScanrange"}
    IN /\ SetScanState(sc)
       /\ lastOp' = "startScan"
       /\ scanPhase' = IF refused THEN scanPhase
                       ELSE IF Raised(sc) THEN "failed" ELSE "open"

StartScan == StartScanOf(ScanCalls \cup RefusedCalls)

\* The undefined reads the next scanNext makes: of an unset nextEntry, of a
\* slot outside the leaf's arrays, through a stale currentPageData.
ScanNextUB ==
  IF ~scanExecuting THEN {NoScanUB}
  ELSE {ub \in ScanUBChoices :
          /\ nextEntry # Uninit => ub.idx = 0
          /\ LET idx == IF nextEntry = Uninit THEN ub.idx ELSE nextEntry IN
             (idx \in 0 .. leafOccupancy /\ currentPageNum \in 1 .. Len(pages))
               => (~ub.occupied /\ ub.key = 0)}

ScanNext ==
  \E ub \in ScanNextUB :
    LET sc == scanNext(ScanState, ub) IN
    /\ SetScanState(sc)
    /\ lastOp' = "scanNext"
    /\ scanPhase' =
         IF sc.exc = "IndexScanCompleted" /\ scanPhase \in {"open", "completed"}
           THEN (IF sc.chainEnd THEN "released" ELSE "completed")
           ELSE scanPhase

EndScan ==
  LET sc == endScan(ScanState) IN
  /\ SetScanState(sc)
  /\ lastOp' = "endScan"
  /\ scanPhase' = IF Raised(sc) THEN scanPhase ELSE "none"

Next == InsertEntry \/ StartScan \/ ScanNext \/ EndScan

Spec == Init /\ [][Next]_vars

\* The index under insertEntry alone, to a depth at which interior nodes split.
NextTree == TreeInsertEntry

SpecTree == Init /\ [][NextTree]_vars

\* Every startScan call over Int32, valid or not.
AllCalls == [lo : Int32, loOp : Operators, hi : Int32, hiOp : Operators]

\* The index under startScan with every pair of operators and bounds in
\* either order, over a small index and in every state of a scan.
ArgsCalls == {c \in AllCalls : c.lo \in {0, MaxKey} /\ c.hi \in {0, MaxKey}}

ArgsInsertEntry == InsertEntryUpTo({0, MaxKey}, MaxArgsInserts)

ArgsStartScan == StartScanOf(ArgsCalls)

NextArgs == ArgsInsertEntry \/ ArgsStartScan \/ ScanNext \/ EndScan

SpecArgs == Init /\ [][NextArgs]_vars

\* Number of insertEntry calls in a behaviour of SpecOpen.
MaxOpenInserts == 5

\* Number of constructor calls that may raise in a behaviour of SpecOpen.
MaxOpenFailures == 2

\* The index object exists: it was constructed and not yet destroyed.
Alive ==
  /\ lastOp # "~BTreeIndex"
  /\ ~(lastOp = "BTreeIndex" /\ result = "BadIndexInfo")

\* The object was made by the constructor's create path.
Created ==
  \/ lastOp = "insertEntry"
  \/ lastOp = "BTreeIndex" /\ trace[1].op = "allocPage"

OpenInsertEntry == Created /\ InsertEntryUpTo({0, MaxKey}, MaxOpenInserts)

\* delete index, or the end of the block that declares it.
Destructor ==
  /\ Alive
  /\ LET sc == destructor(ScanState) IN
     /\ SetScanState(sc)
     /\ lastOp' = "~BTreeIndex"
     /\ scanPhase' = "none"

\* The constructor, called for the relation and offset that name the index
\* file, after the file was closed or after a constructor call that raised.
\* The members the open path leaves unset hold what the object's memory held:
\* for initialRootPageId, the value of the object before or another one.
Open ==
  /\ ~Alive
  /\ result # "PagePinned"
  /\ pinCnt[headerPageNum] < MaxOpenFailures
  /\ \E a \in OpenArgs : \E unset \in {Uninit, initialRootPageId} :
       LET sc == BTreeIndexOpen(ScanState, a.relationName, a.attrByteOffset,
                                a.attrType)
       IN /\ a.relationName = pages[headerPageNum].relationName
          /\ a.attrByteOffset = pages[headerPageNum].attrByteOffset
          /\ pinCnt' = sc.pinCnt
          /\ rootPageNum' = sc.rootPageNum
          /\ initialRootPageId' = unset
          /\ scanExecuting' = sc.scanExecuting
          /\ trace' = sc.trace
          /\ result' = IF Raised(sc) THEN sc.exc ELSE "ok"
  /\ lowValInt' = Uninit
  /\ highValInt' = Uninit
  /\ currentPageNum' = Uninit
  /\ nextEntry' = Uninit
  /\ lastOp' = "BTreeIndex"
  /\ outRid' = NoRid
  /\ scanPins' = [p \in DOMAIN scanPins |-> 0]
  /\ scanPhase' = "none"
  /\ UNCHANGED <<pages, lowOp, highOp, inserted, insertCalls>>

\* An index that is built, closed and opened again.
NextOpen == OpenInsertEntry \/ Destructor \/ Open

SpecOpen == Init /\ [][NextOpen]_vars

\* Number of insertEntry calls in a behaviour of SpecClose.
MaxCloseInserts == 9

\* The keys of a relation that is stored in non-increasing key order.
BackwardKeys ==
  {k \in InsertKeys : inserted = <<>> \/ k <= inserted[Len(inserted)].key}

\* The client builds the index before it scans it.
CloseInsertEntry ==
  /\ lastOp \in {"BTreeIndex", "insertEntry"}
  /\ InsertEntryUpTo(BackwardKeys, MaxCloseInserts)

\* The scan of every key, as intScan(INT_MIN, GTE, INT_MAX, LTE) runs it.
CloseCalls == {[lo |-> IntMin, loOp |-> "GTE", hi |-> IntMax, hiOp |-> "LTE"]}

CloseStartScan == Alive /\ StartScanOf(CloseCalls)

CloseScanNext == Alive /\ ScanNext

CloseEndScan == Alive /\ EndScan

\* An index that is built from a backward relation, then scanned, and destroyed
\* at any moment.
NextClose ==
  CloseInsertEntry \/ CloseStartScan \/ CloseScanNext \/ CloseEndScan \/ Destructor

SpecClose == Init /\ [][NextClose]_vars

\* The largest key of the nodes of SpecSplit.
MaxSplitKey == 3

SplitKeys == (0 - 1) .. MaxSplitKey

\* The pending keys of SpecSplit: below, among, between and above the keys of
\* the node.
PendingKeys == (0 - 2) .. (MaxSplitKey + 1)

\* The full interior nodes with increasing keys of SplitKeys and the children
\* 3, 4, ...
SplitNodes ==
  {[kind |-> "nonleaf", level |-> l, keyArray |-> k,
    pageNoArray |-> [i \in ChildIdx |-> 3 + i]] :
     l \in {0, 1},
     k \in {f \in [KeyIdx -> SplitKeys] :
              \A i \in KeyIdx : \A j \in KeyIdx : i < j => f[i] < f[j]}}

\* An index whose root, page 2, has become a full interior node.
InitSplit ==
  /\ \E node \in SplitNodes :
       pages = <<MetaPage(2), node>> \o [i \in 1 .. nodeOccupancy + 1 |-> EmptyLeaf]
  /\ pinCnt = [p \in 1 .. nodeOccupancy + 3 |-> 0]
  /\ rootPageNum = 2
  /\ initialRootPageId = 3
  /\ scanExecuting = FALSE
  /\ lowValInt = Uninit
  /\ highValInt = Uninit
  /\ lowOp = "GT"
  /\ highOp = "LT"
  /\ currentPageNum = Uninit
  /\ nextEntry = Uninit
  /\ lastOp = "insertEntry"
  /\ result = "ok"
  /\ outRid = NoRid
  /\ trace = <<>>
  /\ inserted = <<>>
  /\ insertCalls = 0
  /\ scanPins = [p \in 1 .. nodeOccupancy + 3 |-> 0]
  /\ scanPhase = "none"

\* splitInternal on the full node p, as insert calls it after the split of a
\* child has allocated a page and left the pending entry (key, that page).
SplitInternalOn(p, key, ub) ==
  LET s0 == AllocPage(EngineState, EmptyLeaf)
      s1 == ReadPage(UnPinPage(s0, Len(s0.pages), TRUE), p)
      pending == [set |-> TRUE, pageNo |-> Len(s1.pages), key |-> key,
                  dangling |-> FALSE]
  IN [pending |-> pending,
      newPageId |-> Len(s1.pages) + 1,
      st |-> splitInternal([s1 EXCEPT !.newInternal = pending], p, ub)]

\* What the store to keyArray[nodeOccupancy] may do.
SplitUB == {ub \in UBChoices : ~ub.clobbered}

\* The split of the full root with a pending entry of any key.
SplitInternal ==
  /\ lastOp = "insertEntry"
  /\ \E key \in PendingKeys : \E ub \in SplitUB :
       LET st == SplitInternalOn(rootPageNum, key, ub).st IN
       /\ pages' = st.pages
       /\ pinCnt' = st.pinCnt
       /\ rootPageNum' = st.rootPageNum
       /\ trace' = st.trace
       /\ scanPins' = PadPins(scanPins, Len(st.pages))
  /\ lastOp' = "splitInternal"
  /\ result' = "ok"
  /\ outRid' = NoRid
  /\ UNCHANGED <<initialRootPageId, scanVars, inserted, insertCalls, scanPhase>>

NextSplit == SplitInternal

SpecSplit == InitSplit /\ [][NextSplit]_vars

----------------------------------------------------------------------------
(* Views of the tree, used to state its properties.                        *)

PageIds == 1 .. Len(pages)
Leaves == {p \in PageIds : pages[p].kind = "leaf"}
Interiors == {p \in PageIds : pages[p].kind = "nonleaf"}

Occupied(leaf) == {i \in LeafIdx : leaf.ridArray[i].page_number # 0}

\* The occupied slots of a leaf, in slot order.
RECURSIVE SlotsFrom(_, _)
SlotsFrom(leaf, i) ==
  IF i >= leafOccupancy THEN <<>>
  ELSE (IF leaf.ridArray[i].page_number # 0
          THEN <<[key |-> leaf.keyArray[i], rid |-> leaf.ridArray[i]]>>
          ELSE <<>>)
       \o SlotsFrom(leaf, i + 1)

\* The leaves reached from leaf p by rightSibPageNo, at most n of them.
RECURSIVE ChainFrom(_, _)
ChainFrom(p, n) ==
  IF n = 0 \/ p \notin Leaves THEN <<>>
  ELSE <<p>> \o ChainFrom(pages[p].rightSibPageNo, n - 1)

\* The leaf that is no leaf's right sibling.
LeftmostLeaves == {p \in Leaves : \A q \in Leaves : pages[q].rightSibPageNo # p}

LeafChain == ChainFrom(CHOOSE p \in LeftmostLeaves : TRUE, Cardinality(Leaves) + 1)

RECURSIVE ChainEntries(_)
ChainEntries(chain) ==
  IF chain = <<>> THEN <<>>
  ELSE SlotsFrom(pages[Head(chain)], 0) \o ChainEntries(Tail(chain))

NonDecreasing(entries) ==
  \A i \in 1 .. Len(entries) - 1 : entries[i].key <= entries[i + 1].key

Range(f) == {f[x] : x \in DOMAIN f}

\* The keys stored in the leaves below page p.
RECURSIVE SubtreeKeys(_)
SubtreeKeys(p) ==
  IF p \notin PageIds THEN {}
  ELSE IF pages[p].kind = "leaf"
    THEN {pages[p].keyArray[i] : i \in Occupied(pages[p])}
  ELSE IF pages[p].kind = "nonleaf"
    THEN UNION {SubtreeKeys(pages[p].pageNoArray[i]) : i \in ChildIdx}
  ELSE {}

Completed == lastOp = "insertEntry" /\ result = "ok"

----------------------------------------------------------------------------
(* A whole scan, as a caller runs it: startScan, then scanNext until it    *)
(* raises.  The result is the entries delivered and the exception that     *)
(* ended the scan.                                                         *)

\* The scan members as the constructor leaves them, over the engine state st.
FreshScan(st) ==
  [pages |-> st.pages, pinCnt |-> st.pinCnt, trace |-> <<>>, exc |-> "none",
   rootPageNum |-> st.rootPageNum, initialRootPageId |-> st.initialRootPageId,
   scanExecuting |-> FALSE, lowValInt |-> Uninit, highValInt |-> Uninit,
   lowOp |-> "GT", highOp |-> "LT", currentPageNum |-> Uninit,
   nextEntry |-> Uninit, outRid |-> NoRid, outKey |-> 0, chainEnd |-> FALSE]

RECURSIVE Drain(_, _)
Drain(sc, n) ==
  LET s == scanNext(sc, NoScanUB) IN
  IF Raised(s) THEN [out |-> <<>>, end |-> s.exc]
  ELSE IF n = 0 THEN [out |-> <<>>, end |-> "unfinished"]
  ELSE LET r == Drain(s, n - 1)
       IN [out |-> <<[key |-> s.outKey, rid |-> s.outRid]>> \o r.out, end |-> r.end]

ScanAllOn(st, c) ==
  LET s == startScan(FreshScan(st), c.lo, c.loOp, c.hi, c.hiOp) IN
  IF Raised(s) THEN [out |-> <<>>, end |-> s.exc]
  ELSE Drain(s, leafOccupancy * Len(st.pages))

ScanAll(c) == ScanAllOn(EngineState, c)

FullRange == [lo |-> IntMin, loOp |-> "GTE", hi |-> IntMax, hiOp |-> "LTE"]

\* The predicate of an operator pair.
Matches(k, c) ==
  /\ IF c.loOp = "GT" THEN c.lo < k ELSE c.lo <= k
  /\ IF c.hiOp = "LT" THEN k < c.hi ELSE k <= c.hi

\* The index the constructor creates, and the one a sequence of insertEntry
\* calls builds from it when every undefined read yields what was written.
NewIndex ==
  [pages |-> <<MetaPage(2), EmptyLeaf>>, pinCnt |-> <<0, 0>>, rootPageNum |-> 2,
   initialRootPageId |-> 2, trace |-> <<>>, exc |-> "none",
   newInternal |-> NullInternal, ubRead |-> FALSE]

RECURSIVE Build(_, _)
Build(st, entries) ==
  IF entries = <<>> THEN st
  ELSE LET e == Head(entries)
           s == insertEntry(st, e.key, e.rid, Benign)
       IN Build([s EXCEPT !.exc = "none", !.trace = <<>>], Tail(entries))

Reverse(seq) == [i \in 1 .. Len(seq) |-> seq[Len(seq) + 1 - i]]

Keys(entries) == [i \in 1 .. Len(entries) |-> entries[i].key]

----------------------------------------------------------------------------
(* C1.  Round trip: after any sequence of completed insertEntry calls, the *)
(* scan (INT_MIN, GTE, INT_MAX, LTE) run until IndexScanCompleted delivers *)
(* exactly the inserted rids, each once, in non-decreasing key order.      *)
C1_RoundTrip ==
  Completed =>
    LET r == ScanAll(FullRange) IN
    /\ r.end = "IndexScanCompleted"
    /\ Len(r.out) = Len(inserted)
    /\ Range(r.out) = Range(inserted)
    /\ NonDecreasing(r.out)

(* C2.  For every valid scan the number of rids delivered (0 when          *)
(* startScan raises NoSuchKeyFound) is the number of inserted keys that    *)
(* satisfy the predicate of the operator pair, also for bounds outside the *)
(* stored keys.                                                            *)
C2_OperatorCounts ==
  Completed =>
    \A c \in ValidCalls :
      LET r == ScanAll(c) IN
      /\ r.end \in {"IndexScanCompleted", "NoSuchKeyFound"}
      /\ Len(r.out) = Cardinality({i \in DOMAIN inserted : Matches(inserted[i].key, c)})

(* C3.  Insertion-order independence: the index built from the same        *)
(* entries inserted in the reverse order answers every scan with the same  *)
(* rids in the same key order.                                             *)
C3_OrderIndependent ==
  Completed =>
    \A c \in ValidCalls :
      LET r == ScanAll(c)
          q == ScanAllOn(Build(NewIndex, Reverse(inserted)), c)
      IN /\ Keys(r.out) = Keys(q.out)
         /\ Range(r.out) = Range(q.out)

----------------------------------------------------------------------------
(* C4.  After every completed insertEntry, following rightSibPageNo from   *)
(* the leftmost leaf visits every leaf exactly once and ends at a leaf     *)
(* whose rightSibPageNo is 0, and the occupied slots met on the way are    *)
(* the inserted entries, each once, in non-decreasing key order.           *)
C4_LeafChainSorted ==
  Completed =>
    /\ Cardinality(LeftmostLeaves) = 1
    /\ Len(LeafChain) = Cardinality(Leaves)
    /\ Range(LeafChain) = Leaves
    /\ pages[LeafChain[Len(LeafChain)]].rightSibPageNo = 0
    /\ Len(ChainEntries(LeafChain)) = Len(inserted)
    /\ Range(ChainEntries(LeafChain)) = Range(inserted)
    /\ NonDecreasing(ChainEntries(LeafChain))

(* C5.  After every completed insertEntry, in every interior node the      *)
(* non-zero children are a prefix children[0..k] with k >= 1, keys[0..k-1] *)
(* ascend, and keys[i] separates the subtrees of children[i] (smaller      *)
(* keys) and children[i+1] (keys not smaller).                             *)
InteriorOk(node) ==
  LET used == {i \in ChildIdx : node.pageNoArray[i] # 0}
      k == Cardinality(used) - 1
  IN /\ used = 0 .. k
     /\ k >= 1
     /\ \A i \in 0 .. k - 2 : node.keyArray[i] <= node.keyArray[i + 1]
     /\ \A i \in 0 .. k - 1 :
          /\ \A x \in SubtreeKeys(node.pageNoArray[i]) : x < node.keyArray[i]
          /\ \A x \in SubtreeKeys(node.pageNoArray[i + 1]) : x >= node.keyArray[i]

C5_InteriorInvariant ==
  Completed => \A p \in Interiors : InteriorOk(pages[p])

(* C6.  After every completed insertEntry, in every leaf the occupied      *)
(* slots are a prefix of the slot array with non-decreasing keys, and      *)
(* every slot after the prefix has rid.page_number = 0.                    *)
LeafOk(leaf) ==
  LET n == Cardinality(Occupied(leaf)) IN
  /\ Occupied(leaf) = 0 .. n - 1
  /\ \A i \in 0 .. n - 2 : leaf.keyArray[i] <= leaf.keyArray[i + 1]
  /\ \A i \in n .. leafOccupancy - 1 : leaf.ridArray[i].page_number = 0

C6_LeafInvariant ==
  Completed => \A p \in Leaves : LeafOk(pages[p])

\* A split has left a leaf partly filled beside leaves holding both keys.
C6_Witness ==
  /\ Completed
  /\ Cardinality(Leaves) >= 3
  /\ \E p \in Leaves :
       /\ Cardinality(Occupied(pages[p])) \in 2 .. leafOccupancy - 1
       /\ \E i, j \in Occupied(pages[p]) : pages[p].keyArray[i] < pages[p].keyArray[j]

(* C7.  Pin balance of insertEntry: when the call returns, every page    *)
(* has the pin count it had before the call, and each readPage or          *)
(* allocPage of the call is matched by one unPinPage of the same page.     *)
PinEvents(tr, p) ==
  Cardinality({i \in DOMAIN tr : tr[i].page = p /\ tr[i].op \in {"readPage", "allocPage"}})

UnpinEvents(tr, p) ==
  Cardinality({i \in DOMAIN tr : tr[i].page = p /\ tr[i].op = "unPinPage"})

C7_PinBalance ==
  [][(lastOp' = "insertEntry" /\ result' = "ok") =>
       \A p \in DOMAIN pinCnt' :
         /\ pinCnt'[p] = (IF p \in DOMAIN pinCnt THEN pinCnt[p] ELSE 0)
         /\ PinEvents(trace', p) = UnpinEvents(trace', p)]_vars

\* An insertEntry that split a leaf and the interior root and promoted a
\* new root has returned.
C7_Witness ==
  /\ Completed
  /\ Cardinality({i \in DOMAIN trace : trace[i].op = "allocPage"}) = 3

----------------------------------------------------------------------------
(* Properties of the scan calls.                                           *)

ScanHoldsOnePin ==
  /\ currentPageNum \in DOMAIN scanPins
  /\ \A p \in DOMAIN scanPins : scanPins[p] = (IF p = currentPageNum THEN 1 ELSE 0)

ScanHoldsNoPin == \A p \in DOMAIN scanPins : scanPins[p] = 0

(* C8, as stated.  From a normal return of startScan until endScan, also   *)
(* after scanNext has raised IndexScanCompleted, the scan holds exactly    *)
(* one pin, on the leaf currentPageNum.                                    *)
C8_OnePinWhileScanning ==
  scanPhase \in {"open", "completed", "released"} => ScanHoldsOnePin

(* C8, amended.  The scan holds exactly one pin, on the leaf               *)
(* currentPageNum, from a normal return of startScan until scanNext        *)
(* raises IndexScanCompleted at the end of the leaf chain; from then on    *)
(* until endScan it holds no pin.                                          *)
C8_OnePinUntilChainEnd ==
  /\ scanPhase \in {"open", "completed"} => ScanHoldsOnePin
  /\ scanPhase = "released" => ScanHoldsNoPin

\* A scan over a split tree has raised IndexScanCompleted at the last leaf.
C8_Witness ==
  /\ scanPhase = "released"
  /\ lastOp = "scanNext"
  /\ result = "IndexScanCompleted"
  /\ Cardinality(Leaves) > 1

(* C9.  In every operation each read or write of a page's bytes happens    *)
(* while the engine holds a pin on that page.                              *)
C9_AccessOnlyWhilePinned ==
  \A i \in DOMAIN trace : trace[i].op = "access" => trace[i].pins > 0

(* C10.  While no scan is active (before any startScan, and after an       *)
(* endScan has ended the scan) scanNext and endScan raise                  *)
(* ScanNotInitialized and change no state.                                 *)
C10_ScanNotInitialized ==
  [][(scanPhase = "none" /\ lastOp' \in {"scanNext", "endScan"}) =>
       (result' = "ScanNotInitialized" /\ UNCHANGED engineVars)]_vars

\* A second endScan, after the one that ended a scan.
C10_Witness ==
  /\ lastOp = "endScan"
  /\ result = "ScanNotInitialized"
  /\ currentPageNum = NoPage

----------------------------------------------------------------------------
(* C11.  startScan with valid arguments raises NoSuchKeyFound exactly when *)
(* no stored key satisfies the scan predicate (so always on an empty       *)
(* index); otherwise it returns normally with nextEntry on the first       *)
(* entry, in leaf-chain order, that satisfies the predicate.               *)
FirstMatch(entries, c) ==
  LET hits == {i \in DOMAIN entries : Matches(entries[i].key, c)}
  IN entries[CHOOSE i \in hits : \A j \in hits : i <= j]

StartsAtFirstMatch(c) ==
  LET s == startScan(FreshScan(EngineState), c.lo, c.loOp, c.hi, c.hiOp)
      stored == {i \in DOMAIN inserted : Matches(inserted[i].key, c)}
  IN IF stored = {} THEN s.exc = "NoSuchKeyFound"
     ELSE /\ s.exc = "none"
          /\ s.currentPageNum \in Leaves
          /\ s.nextEntry \in LeafIdx
          /\ pages[s.currentPageNum].ridArray[s.nextEntry]
               = FirstMatch(ChainEntries(LeafChain), c).rid

C11_NoSuchKeyFound ==
  (lastOp = "BTreeIndex" \/ Completed) => \A c \in ValidCalls : StartsAtFirstMatch(c)

----------------------------------------------------------------------------
(* Validation of startScan's arguments, in whatever state the engine is.   *)

GoodOps(c) == c.loOp \in {"GT", "GTE"} /\ c.hiOp \in {"LT", "LTE"}

\* The call pinned and unpinned nothing.
NoBufferCall(s) == s.pinCnt = pinCnt /\ s.trace = <<>>

(* C12.  startScan raises BadOpcodes whenever lowOp is not GT or GTE or    *)
(* highOp is not LT or LTE, whatever the bounds (also when low > high),    *)
(* and pins no page in that case.                                          *)
C12_BadOpcodes ==
  \A c \in AllCalls :
    ~GoodOps(c) =>
      LET s == startScan(ScanState, c.lo, c.loOp, c.hi, c.hiOp)
      IN s.exc = "BadOpcodes" /\ NoBufferCall(s)

\* startScan has refused bad operators given with low > high, while a scan
\* holds its pin.
C12_Witness ==
  /\ lastOp = "startScan"
  /\ result = "BadOpcodes"
  /\ lowValInt > highValInt
  /\ scanPhase = "open"

(* C13.  With valid operators startScan raises BadScanrange exactly when   *)
(* low > high; low = high is accepted for every operator pair; no page is  *)
(* pinned when BadScanrange is raised.                                     *)
C13_BadScanrange ==
  \A c \in AllCalls :
    GoodOps(c) =>
      LET s == startScan(ScanState, c.lo, c.loOp, c.hi, c.hiOp)
      IN /\ (s.exc = "BadScanrange") <=> (c.lo > c.hi)
         /\ c.lo > c.hi => NoBufferCall(s)

\* startScan has refused low > high while a scan holds its pin.
C13_Witness ==
  /\ lastOp = "startScan"
  /\ result = "BadScanrange"
  /\ lowValInt > highValInt
  /\ scanPhase = "open"

----------------------------------------------------------------------------
\* C14: after the constructor and after every insertEntry that returned, the
\* rootPageNo of the header page equals the rootPageNum of the index object.
C14_HeaderRoot ==
  (lastOp = "BTreeIndex" \/ Completed) =>
      pages[headerPageNum].rootPageNo = rootPageNum

\* An insertEntry returned after the root was promoted a second time.
C14_Witness ==
  /\ Completed
  /\ rootPageNum # initialRootPageId
  /\ pages[rootPageNum].level = 0

----------------------------------------------------------------------------
\* The scan members of an engine on which no scan was ever started, over the
\* pages of the index as they are now.
NeverScanned ==
  FreshScan([pages |-> pages, pinCnt |-> [p \in DOMAIN pages |-> 0],
             rootPageNum |-> rootPageNum, initialRootPageId |-> initialRootPageId])

PinsHeld(pins) == {p \in DOMAIN pins : pins[p] > 0}

(* C15.  A startScan with valid arguments, called while a scan is          *)
(* executing (open, ended by IndexScanCompleted, or left by a startScan    *)
(* that raised), first calls unPinPage on the page of that scan, which     *)
(* leaves it unpinned, and then ends as it does on an engine that never    *)
(* scanned: the same exception, or the same leaf and slot for the scanNext *)
(* calls that follow, and the same pins; at most one page is pinned        *)
(* afterwards, once.                                                       *)
C15_RestartEndsScan ==
  [][(/\ scanExecuting
      /\ lastOp' = "startScan"
      /\ result' \notin {"BadOpcodes", "BadScanrange"}) =>
       LET fresh == startScan(NeverScanned, lowValInt', lowOp', highValInt', highOp')
       IN /\ trace'[1] = Event("unPinPage", currentPageNum, FALSE, 0)
          /\ result' = (IF Raised(fresh) THEN fresh.exc ELSE "ok")
          /\ pinCnt' = fresh.pinCnt
          /\ scanExecuting' = fresh.scanExecuting
          /\ ~Raised(fresh) =>
               /\ currentPageNum' = fresh.currentPageNum
               /\ nextEntry' = fresh.nextEntry
          /\ Cardinality(PinsHeld(pinCnt')) <= 1
          /\ \A p \in DOMAIN pinCnt' : pinCnt'[p] <= 1]_vars

\* A startScan returned after it had ended a scan on another leaf.
C15_Witness ==
  /\ lastOp = "startScan"
  /\ result = "ok"
  /\ trace[1].op = "unPinPage"
  /\ trace[1].page \in Leaves \ {currentPageNum}
  /\ scanPins[currentPageNum] = 1

----------------------------------------------------------------------------
(* C16.  The constructor, run on the existing file of a closed index,      *)
(* raises BadIndexInfo exactly when relationName, attrType or              *)
(* attrByteOffset differs from the header page, and in both cases it       *)
(* leaves the pin counts as it found them, having called unPinPage once,   *)
(* on the header page and clean.                                           *)
C16_OpenValidates ==
  (lastOp = "~BTreeIndex" /\ result = "ok") =>
    \A a \in OpenArgs :
      LET s == BTreeIndexOpen(ScanState, a.relationName, a.attrByteOffset, a.attrType)
          meta == pages[headerPageNum]
          mismatch == \/ a.relationName # meta.relationName
                      \/ a.attrType # meta.attrType
                      \/ a.attrByteOffset # meta.attrByteOffset
          unpins == {i \in DOMAIN s.trace : s.trace[i].op = "unPinPage"}
      IN /\ s.exc = (IF mismatch THEN "BadIndexInfo" ELSE "none")
         /\ s.pinCnt = pinCnt
         /\ \E i \in unpins :
              /\ unpins = {i}
              /\ s.trace[i] = Event("unPinPage", headerPageNum, FALSE, 0)

----------------------------------------------------------------------------
(* C17.  The destructor, run after any sequence of insertEntry, startScan, *)
(* scanNext and endScan calls, does not raise and leaves no page of the    *)
(* index file pinned.                                                      *)
C17_DestructorNeverRaises ==
  lastOp = "~BTreeIndex" =>
    /\ result = "ok"
    /\ \A p \in DOMAIN pinCnt : pinCnt[p] = 0

----------------------------------------------------------------------------
\* The pages that split in a call with trace tr: a split allocates the new
\* node and then writes the node that splits.
SplitPages(tr) ==
  {tr[i + 1].page : i \in {j \in 1 .. Len(tr) - 1 :
                             /\ tr[j].op = "allocPage"
                             /\ tr[j + 1].op = "access"
                             /\ tr[j + 1].page # tr[j].page}}

\* The root promotions of a call with trace tr: splitRoot allocates the new
\* root and then writes it.
Promotions(tr) ==
  {i \in 1 .. Len(tr) - 1 : /\ tr[i].op = "allocPage"
                            /\ tr[i + 1].op = "access"
                            /\ tr[i + 1].page = tr[i].page}

(* C18.  An insertEntry call promotes the root once when the node that is  *)
(* the root at the start of the call splits, and not at all otherwise;     *)
(* rootPageNum changes in exactly the calls that promote, to the page the  *)
(* promotion allocated.                                                    *)
C18_OnePromotion ==
  [][lastOp' = "insertEntry" =>
       LET rootSplits == rootPageNum \in SplitPages(trace')
           promoted == Promotions(trace')
       IN /\ Cardinality(promoted) = (IF rootSplits THEN 1 ELSE 0)
          /\ (rootPageNum' # rootPageNum) <=> rootSplits
          /\ \A i \in promoted : rootPageNum' = trace'[i].page]_vars

\* A call in which a leaf and then the interior root split.
C18_Witness ==
  /\ Completed
  /\ Cardinality(SplitPages(trace)) = 2
  /\ Cardinality(Promotions(trace)) = 1
  /\ pages[rootPageNum].level = 0

----------------------------------------------------------------------------
\* The children of an interior node, in slot order, and its keys: a node of
\* c children holds c - 1 keys.
ChildSeq(node) ==
  SelectSeq([i \in 1 .. nodeOccupancy + 1 |-> node.pageNoArray[i - 1]],
            LAMBDA x : x # 0)

KeySeq(node) == [i \in 1 .. Len(ChildSeq(node)) - 1 |-> node.keyArray[i - 1]]

\* Number of occurrences of x in seq.
Count(seq, x) == Cardinality({i \in DOMAIN seq : seq[i] = x})

SameBag(s, t) == \A x \in Range(s) \cup Range(t) : Count(s, x) = Count(t, x)

FullInteriors == {p \in Interiors : Len(ChildSeq(pages[p])) = nodeOccupancy + 1}

(* C19.  splitInternal on a full interior node with a pending entry loses  *)
(* no subtree and no key: the children of the old and the new node are the *)
(* children the node had and the pending child, each once, and the keys of *)
(* the two nodes with the pushed-up key are the keys the node had and the  *)
(* pending key.                                                            *)
C19_SplitKeepsAll ==
  \A p \in FullInteriors : \A key \in InsertKeys : \A ub \in SplitUB :
    LET r == SplitInternalOn(p, key, ub)
        oldNode == r.st.pages[p]
        newNode == r.st.pages[r.newPageId]
    IN /\ SameBag(ChildSeq(oldNode) \o ChildSeq(newNode),
                  Append(ChildSeq(pages[p]), r.pending.pageNo))
       /\ SameBag(KeySeq(oldNode) \o KeySeq(newNode) \o <<r.st.newInternal.key>>,
                  Append(KeySeq(pages[p]), key))

----------------------------------------------------------------------------
\* The index of the key an interior split pushes up, for a node of N keys.
PushedIndex(N, midKey, key) ==
  IF N % 2 = 1 THEN N \div 2
  ELSE IF key < midKey THEN N \div 2 - 1 ELSE N \div 2

\* The entry (key, pageNo) is in the node: the key in a slot, the page to its
\* right.
HoldsEntry(node, key, pageNo) ==
  \E j \in KeyIdx : node.keyArray[j] = key /\ node.pageNoArray[j + 1] = pageNo

\* The keys of the entries of a node: those with a page to their right.
EntryKeys(node) == {node.keyArray[j] : j \in {i \in KeyIdx : node.pageNoArray[i + 1] # 0}}

(* C20.  splitInternal on a full interior node pushes up the entry         *)
(* (new page, old.keys[pushupIndex]), pushupIndex being the middle index   *)
(* for an odd number of keys and chosen by the pending key for an even     *)
(* one; the new node has the old node's level; the pushed-up key, when no  *)
(* other key involved equals it, is afterwards the key of no entry of      *)
(* either node; and the pending entry is in the old node if its key is     *)
(* less than the first key of the new node, otherwise in the new node.     *)
C20_PushUp ==
  \A p \in FullInteriors : \A key \in PendingKeys : \A ub \in SplitUB :
    LET r == SplitInternalOn(p, key, ub)
        node == pages[p]
        oldNode == r.st.pages[p]
        newNode == r.st.pages[r.newPageId]
        up == r.st.newInternal
        idx == PushedIndex(nodeOccupancy, node.keyArray[nodeOccupancy \div 2], key)
        involved == Append(KeySeq(node), key)
        home == IF key < newNode.keyArray[0] THEN oldNode ELSE newNode
        other == IF key < newNode.keyArray[0] THEN newNode ELSE oldNode
    IN /\ up.pageNo = r.newPageId
       /\ up.key = node.keyArray[idx]
       /\ newNode.level = node.level
       /\ Count(involved, up.key) = 1 =>
            up.key \notin EntryKeys(oldNode) \cup EntryKeys(newNode)
       /\ HoldsEntry(home, key, r.pending.pageNo)
       /\ r.pending.pageNo \notin Range(other.pageNoArray)

----------------------------------------------------------------------------
\* The rids of the occupied slots of a leaf, and of its slots lo .. hi - 1.
LeafRids(leaf) == {leaf.ridArray[i] : i \in Occupied(leaf)}

SlotRids(leaf, lo, hi) == {leaf.ridArray[i] : i \in {j \in LeafIdx : lo <= j /\ j < hi}}

\* The slot from which a leaf split moves entries, for a leaf of L slots.
SplitPoint(L) == IF L % 2 = 0 THEN L \div 2 ELSE L \div 2 + 1

\* insert on the pinned leaf p, with an entry of the next record.
InsertIntoLeaf(p, key) ==
  LET rid == [page_number |-> insertCalls + 1, slot_number |-> 1]
  IN [rid |-> rid,
      st |-> insert(ReadPage(EngineState, p), p, TRUE, [key |-> key, rid |-> rid],
                    Benign)]

(* C21.  An insert into a leaf allocates a new leaf exactly when all L     *)
(* slots of the leaf are occupied.  The split moves the slots [mid, L) to  *)
(* the new leaf, from index 0 on, and empties them in the old leaf, with   *)
(* mid = L/2 for even L and L/2 + 1 for odd L; the new entry goes to the   *)
(* new leaf if its key is greater than old.keys[mid - 1], else to the old  *)
(* leaf.                                                                   *)
C21_LeafSplit ==
  \A p \in Leaves : \A key \in InsertKeys :
    LET r == InsertIntoLeaf(p, key)
        leaf == pages[p]
        full == Occupied(leaf) = LeafIdx
        mid == SplitPoint(leafOccupancy)
        newPageId == Len(pages) + 1
        toNew == key > leaf.keyArray[mid - 1]
    IN /\ full <=> (Len(r.st.pages) > Len(pages))
       /\ full =>
            /\ r.st.pages[newPageId].kind = "leaf"
            /\ LeafRids(r.st.pages[p]) =
                 SlotRids(leaf, 0, mid) \cup (IF toNew THEN {} ELSE {r.rid})
            /\ LeafRids(r.st.pages[newPageId]) =
                 SlotRids(leaf, mid, leafOccupancy) \cup (IF toNew THEN {r.rid} ELSE {})
            /\ Occupied(r.st.pages[newPageId]) =
                 0 .. (Cardinality(LeafRids(r.st.pages[newPageId])) - 1)

----------------------------------------------------------------------------
FullLeaves == {p \in Leaves : Occupied(pages[p]) = LeafIdx}

\* The interior nodes with a free slot, and the leaf below such a node that
\* an insert of the key goes to.
OpenInteriors == {n \in Interiors : pages[n].pageNoArray[nodeOccupancy] = 0}

LeafBelow(n, key) == findNextInternal(pages[n], key)

\* The state insert leaves when called on the pinned interior node n.
InsertBelow(n, key, ub) ==
  insert(ReadPage(EngineState, n), n, FALSE,
         [key |-> key, rid |-> [page_number |-> insertCalls + 1, slot_number |-> 1]],
         ub)

\* What a split of leaf p by an insert of the key leaves: the new leaf is to
\* the right of the old one, and the pending entry is the new page with the
\* first, smallest, key of the new leaf, which stays in the new leaf.
Spliced(p, key) ==
  LET st == InsertIntoLeaf(p, key).st
      newPageId == Len(pages) + 1
      newLeaf == st.pages[newPageId]
  IN /\ newLeaf.rightSibPageNo = pages[p].rightSibPageNo
     /\ st.pages[p].rightSibPageNo = newPageId
     /\ st.newInternal.set
     /\ st.newInternal.pageNo = newPageId
     /\ 0 \in Occupied(newLeaf)
     /\ st.newInternal.key = newLeaf.keyArray[0]
     /\ \A i \in Occupied(newLeaf) : newLeaf.keyArray[0] <= newLeaf.keyArray[i]

(* C22.  A leaf split puts the new leaf to the right of the old one        *)
(* (new.right is the old leaf's former right sibling, old.right the new    *)
(* page) and emits the pending entry (new page, smallest key of the new    *)
(* leaf after the new entry was placed); the key stays in the new leaf.    *)
(* The pair that the new root, or the parent with a free slot, stores is   *)
(* the pair emitted.                                                       *)
C22_CopyUp ==
  \A key \in InsertKeys :
    /\ \A p \in FullLeaves :
         /\ Spliced(p, key)
         /\ p = rootPageNum =>
              LET st == InsertIntoLeaf(p, key).st
                  root == st.pages[st.rootPageNum]
              IN /\ st.rootPageNum = Len(pages) + 2
                 /\ root.keyArray[0] = st.newInternal.key
                 /\ root.pageNoArray[0] = p
                 /\ root.pageNoArray[1] = st.newInternal.pageNo
    /\ \A n \in OpenInteriors : \A ub \in UBChoices :
         LET p == LeafBelow(n, key)
         IN (pages[n].level # 0 /\ p \in FullLeaves) =>
              LET emitted == InsertIntoLeaf(p, key).st.newInternal
              IN HoldsEntry(InsertBelow(n, key, ub).pages[n], emitted.key, emitted.pageNo)

----------------------------------------------------------------------------
\* The pages startScan read, in order, and the pins it holds before event k.
PagesRead(tr) ==
  LET reads == SelectSeq(tr, LAMBDA e : e.op = "readPage")
  IN [i \in DOMAIN reads |-> reads[i].page]

PinsBefore(tr, k) ==
  Cardinality({j \in 1 .. k - 1 : tr[j].op = "readPage"})
    - Cardinality({j \in 1 .. k - 1 : tr[j].op = "unPinPage"})

\* The child the descent takes in a node: the last occupied one, stepped to
\* the left while the key before it is not below the low bound.
RECURSIVE StepLeft(_, _, _)
StepLeft(node, low, i) ==
  IF i > 0 /\ node.keyArray[i - 1] >= low THEN StepLeft(node, low, i - 1) ELSE i

DescentChild(node, low) ==
  LET occupied == {i \in ChildIdx : node.pageNoArray[i] # 0}
  IN IF occupied = {} THEN 0
     ELSE node.pageNoArray[StepLeft(node, low, CHOOSE i \in occupied : \A j \in occupied : j <= i)]

\* The leaf of the first entry, in leaf-chain order, that satisfies the scan.
FirstMatchLeaf(c) ==
  LET rid == FirstMatch(ChainEntries(LeafChain), c).rid
  IN CHOOSE p \in Leaves : rid \in LeafRids(pages[p])

DescentOK(c) ==
  LET s == startScan(FreshScan(EngineState), c.lo, c.loOp, c.hi, c.hiOp)
      read == PagesRead(s.trace)
      firstLeaf == CHOOSE i \in DOMAIN read :
                     /\ read[i] \in Leaves
                     /\ \A j \in 1 .. i - 1 : read[j] \notin Leaves
      stored == {i \in DOMAIN inserted : Matches(inserted[i].key, c)}
  IN /\ \E i \in DOMAIN read : read[i] \in Leaves
     /\ \A j \in 1 .. firstLeaf - 1 :
          /\ read[j] \in Interiors
          /\ read[j + 1] # 0
          /\ read[j + 1] = DescentChild(pages[read[j]], c.lo)
     /\ \A k \in DOMAIN s.trace :
          /\ s.trace[k].op = "readPage" => PinsBefore(s.trace, k) = 0
          /\ s.trace[k].op = "unPinPage" => ~s.trace[k].dirty
     /\ stored # {} =>
          FirstMatchLeaf(c) \in Range(ChainFrom(read[firstLeaf], Cardinality(Leaves) + 1))

(* C23.  The descent of startScan never overshoots.  Each step follows the *)
(* non-zero child children[i], i being the largest occupied index lowered  *)
(* while i > 0 and keys[i - 1] >= low; the parent is unpinned, clean,       *)
(* before the child is read, so at most one page of the index is pinned;    *)
(* and the descent ends with a leaf pinned that holds the first entry       *)
(* satisfying the scan or precedes it in the sibling chain.                 *)
C23_NoOvershoot ==
  (lastOp = "BTreeIndex" \/ Completed) => \A c \in ValidCalls : DescentOK(c)

----------------------------------------------------------------------------
\* The occupied child slots of an interior node, as (node, slot) pairs that
\* hold page p.
ParentSlots(p) ==
  {ns \in Interiors \X ChildIdx : pages[ns[1]].pageNoArray[ns[2]] = p}

\* The depths, counted from page p at depth d, of the leaves below p.
RECURSIVE LeafDepths(_, _)
LeafDepths(p, d) ==
  IF p \notin PageIds \/ d > Len(pages) THEN {}
  ELSE IF pages[p].kind = "leaf" THEN {d}
  ELSE IF pages[p].kind = "nonleaf"
    THEN UNION {LeafDepths(pages[p].pageNoArray[i], d + 1) : i \in ChildIdx}
  ELSE {}

(* C24.  After every completed insertEntry the tree is balanced and its    *)
(* levels are truthful: all leaves are at the same depth, the children of  *)
(* a node with level 1 are leaves, the children of a node with level 0 are *)
(* interior nodes, and every node page but the root is the child of        *)
(* exactly one interior node.                                              *)
C24_Balanced ==
  Completed =>
    /\ Cardinality(LeafDepths(rootPageNum, 0)) = 1
    /\ \A n \in Interiors : \A i \in ChildIdx :
         LET c == pages[n].pageNoArray[i]
         IN c # 0 => IF pages[n].level # 0 THEN c \in Leaves ELSE c \in Interiors
    /\ \A p \in (Leaves \cup Interiors) \ {rootPageNum} :
         Cardinality(ParentSlots(p)) = 1

----------------------------------------------------------------------------
\* rootPageNum equals the sentinel exactly when the root page is a leaf, and
\* exactly when no root has been promoted yet.
SentinelTellsLeaf ==
  /\ (rootPageNum = initialRootPageId) <=> (rootPageNum \in Leaves)
  /\ (rootPageNum = initialRootPageId) <=> (Interiors = {})

(* C25.  The initial-root sentinel is never modified, and rootPageNum      *)
(* equals it exactly while the root page is a leaf: from creation until    *)
(* the first root promotion, and in no state after it.                     *)
C25_Sentinel ==
  [][/\ initialRootPageId' = initialRootPageId
     /\ SentinelTellsLeaf
     /\ SentinelTellsLeaf'
     /\ rootPageNum # initialRootPageId => rootPageNum' # initialRootPageId']_vars

\* The root has been promoted twice; the first root is still a leaf.
C25_Witness ==
  /\ rootPageNum # initialRootPageId
  /\ rootPageNum \in Interiors
  /\ pages[rootPageNum].level = 0
  /\ initialRootPageId \in Leaves

----------------------------------------------------------------------------
\* The object was made by the constructor's open path, which returned.
Reopened == lastOp = "BTreeIndex" /\ result = "ok" /\ ~Created

\* The page the create path allocates for the first root, after the header.
FirstRootPage == headerPageNum + 1

(* C26.  The sentinel survives a reopen: after the constructor has opened  *)
(* an existing file, initialRootPageId has the value it got at creation,   *)
(* so that insertEntry and startScan take the root for a leaf exactly when *)
(* it is one, and a scan of the reopened index returns what the same scan  *)
(* returned before the index was closed.                                   *)
C26_SentinelPersists ==
  Reopened =>
    /\ initialRootPageId = FirstRootPage
    /\ (initialRootPageId = rootPageNum) <=> (rootPageNum \in Leaves)
    /\ \A c \in ScanCalls :
         ScanAll(c) = ScanAllOn([EngineState EXCEPT !.initialRootPageId = FirstRootPage], c)

----------------------------------------------------------------------------
\* Pending entries as a split of the root hands them to splitRoot: the page
\* allocated last, with any key.
PendingPairs == [pageNo : {Len(pages)}, key : Int32]

\* The page is an interior node with the one key and the two children given
\* and nothing else.
OneKeyNode(node, key, left, right) ==
  /\ node.kind = "nonleaf"
  /\ node.keyArray[0] = key
  /\ node.pageNoArray[0] = left
  /\ node.pageNoArray[1] = right
  /\ \A i \in ChildIdx : i > 1 => node.pageNoArray[i] = 0
  /\ \A i \in KeyIdx : i > 0 => node.keyArray[i] = 0

\* splitRoot, called in this state for the root and the pending entry.
PromotesRoot(pending) ==
  LET st == splitRoot(EngineState, rootPageNum, pending)
      newRoot == Len(pages) + 1
  IN /\ Len(st.pages) = newRoot
     /\ OneKeyNode(st.pages[newRoot], pending.key, rootPageNum, pending.pageNo)
     /\ st.pages[newRoot].level = (IF rootPageNum \in Leaves THEN 1 ELSE 0)
     /\ st.pages[headerPageNum].rootPageNo = newRoot
     /\ st.rootPageNum = newRoot
     /\ \A p \in PageIds \ {headerPageNum} : st.pages[p] = pages[p]

(* C27.  A root promotion creates a fresh interior page with exactly one   *)
(* key and two children: keys[0] is the pending key, children[0] the old   *)
(* root, children[1] the pending page, the other child slots 0; its level  *)
(* is 1 if the old root was a leaf and 0 otherwise; and it is made the     *)
(* root in the header page and in rootPageNum.                             *)
C27_Promotion ==
  [][/\ \A pending \in PendingPairs : PromotesRoot(pending)
     /\ rootPageNum' # rootPageNum =>
          LET newRoot == pages'[rootPageNum'] IN
          /\ rootPageNum' \notin PageIds
          /\ newRoot.kind = "nonleaf"
          /\ newRoot.pageNoArray[1] \in (1 .. Len(pages')) \ (PageIds \cup {rootPageNum'})
          /\ OneKeyNode(newRoot, newRoot.keyArray[0], rootPageNum, newRoot.pageNoArray[1])
          /\ rootPageNum \in Leaves =>
               newRoot.keyArray[0] = pages'[newRoot.pageNoArray[1]].keyArray[0]
          /\ newRoot.level = (IF rootPageNum \in Leaves THEN 1 ELSE 0)
          /\ pages'[headerPageNum].rootPageNo = rootPageNum']_vars

\* The call that just returned promoted an interior root.
C27_Witness ==
  /\ Completed
  /\ Promotions(trace) # {}
  /\ rootPageNum \in Interiors
  /\ pages[rootPageNum].level = 0
  /\ pages[rootPageNum].pageNoArray[0] \in Interiors

----------------------------------------------------------------------------
\* The members of a scan and the pins of the buffer pool.
ScanMembers(sc) ==
  <<sc.scanExecuting, sc.lowValInt, sc.highValInt, sc.lowOp, sc.highOp,
    sc.currentPageNum, sc.nextEntry, sc.pinCnt>>

\* The startScan calls that validation refuses.
BadCalls == {c \in AllCalls : ~GoodOps(c) \/ c.lo > c.hi}

(* C28.  A startScan that fails validation (BadOpcodes or BadScanrange)    *)
(* while a scan is executing leaves that scan unchanged: its bounds, its   *)
(* operators, its current leaf, nextEntry and the pinned page are as       *)
(* before the call, and the scanNext calls that follow return the rids     *)
(* they would have returned without the failed call.                       *)
C28_RefusedKeepsScan ==
  (scanExecuting /\ scanPhase = "open") =>
    \A c \in BadCalls :
      LET s == startScan(ScanState, c.lo, c.loOp, c.hi, c.hiOp)
      IN /\ s.exc \in {"BadOpcodes", "BadScanrange"}
         /\ ScanMembers(s) = ScanMembers(ScanState)
         /\ Drain([s EXCEPT !.exc = "none", !.trace = <<>>], leafOccupancy * Len(pages))
              = Drain(ScanState, leafOccupancy * Len(pages))

----------------------------------------------------------------------------
(* C29.  When startScan raises NoSuchKeyFound no scan is active afterwards: *)
(* scanExecuting is false, the scan holds no page of the index pinned, and  *)
(* a scanNext or an endScan that follows raises ScanNotInitialized.         *)
C29_NoScanAfterNoSuchKey ==
  (lastOp = "startScan" /\ result = "NoSuchKeyFound") =>
    /\ \A p \in PageIds : pinCnt[p] = 0
    /\ ~scanExecuting
    /\ \A ub \in ScanNextUB : scanNext(ScanState, ub).exc = "ScanNotInitialized"
    /\ endScan(ScanState).exc = "ScanNotInitialized"

----------------------------------------------------------------------------
(* C30.  IndexScanCompleted is stable: once scanNext has raised it in a    *)
(* scan, the next scanNext of that scan raises IndexScanCompleted again,   *)
(* and so every further one before endScan, whether the scan ended on a    *)
(* key beyond the high bound or at the end of the leaf chain.              *)
C30_CompletedIsStable ==
  (/\ lastOp = "scanNext"
   /\ result = "IndexScanCompleted"
   /\ scanPhase \in {"completed", "released"}) =>
    \A ub \in ScanNextUB : scanNext(ScanState, ub).exc = "IndexScanCompleted"

----------------------------------------------------------------------------
(* The array slots a call touches.                                         *)

\* The slots of keyArray and ridArray that insertLeaf reads or writes, from
\* loop index i on.  A shift writes slot i + 1 only, so the reads that follow
\* see the leaf as it was.
RECURSIVE InsertLeafSlotsFrom(_, _, _)
InsertLeafSlotsFrom(leaf, key, i) ==
  IF i < 0 THEN {0}
  ELSE IF leaf.ridArray[i].page_number # 0
    THEN {i, i + 1} \cup (IF leaf.keyArray[i] > key
                            THEN InsertLeafSlotsFrom(leaf, key, i - 1) ELSE {})
    ELSE {i} \cup InsertLeafSlotsFrom(leaf, key, i - 1)

InsertLeafSlots(leaf, key) ==
  IF leaf.ridArray[0].page_number # 0
    THEN InsertLeafSlotsFrom(leaf, key, leafOccupancy - 1)
    ELSE {0}

\* The old leaf as the move loop of splitLeaf leaves it.
KeptHalf(leaf) ==
  [leaf EXCEPT !.ridArray = [i \in LeafIdx |->
                               IF i >= LeafMid
                                 THEN [leaf.ridArray[i] EXCEPT !.page_number = 0]
                                 ELSE leaf.ridArray[i]]]

\* The slots of keyArray that insertInternal reads or writes, from loop index
\* i on, and the slots of pageNoArray.
RECURSIVE InsertInternalKeySlots(_, _, _)
InsertInternalKeySlots(internal, key, i) ==
  IF i < 0 THEN {0}
  ELSE IF internal.pageNoArray[i] = 0 THEN InsertInternalKeySlots(internal, key, i - 1)
  ELSE {i - 1, i} \cup (IF KeyAt(internal, i - 1) > key
                          THEN InsertInternalKeySlots(internal, key, i - 1) ELSE {})

RECURSIVE InsertInternalPageSlots(_, _, _)
InsertInternalPageSlots(internal, key, i) ==
  IF i < 0 THEN {1}
  ELSE {i} \cup
       (IF internal.pageNoArray[i] = 0 THEN InsertInternalPageSlots(internal, key, i - 1)
        ELSE {i + 1} \cup (IF KeyAt(internal, i - 1) > key
                             THEN InsertInternalPageSlots(internal, key, i - 1) ELSE {}))

\* The slots of the old node's keyArray and pageNoArray that splitInternal's
\* move loop and the two stores after it touch.
SplitKeySlots(pushupIndex) ==
  UNION {{i, i + 1} : i \in (pushupIndex + 1) .. (nodeOccupancy - 1)} \cup {pushupIndex}

SplitPageSlots(pushupIndex) ==
  {i + 1 : i \in (pushupIndex + 1) .. (nodeOccupancy - 1)} \cup {pushupIndex}

\* The values of nextEntry with which the scanNext calls of a scan read
\* ridArray, for at most n calls.
RECURSIVE ScanSlots(_, _)
ScanSlots(sc, n) ==
  IF n = 0 \/ Raised(sc) THEN {}
  ELSE {sc.nextEntry} \cup ScanSlots(scanNext(sc, NoScanUB), n - 1)

\* What the insert below page c leaves for the parent of c.
PendingFrom(c, key) ==
  IF c \in Leaves THEN InsertIntoLeaf(c, key).st.newInternal
  ELSE InsertBelow(c, key, Benign).newInternal

(* C31.  Every slot access stays inside its array: leaf key and rid        *)
(* indices in 0 .. L - 1, interior key indices in 0 .. N - 1 and child     *)
(* indices in 0 .. N, in insertLeaf (also on the old leaf during a split), *)
(* in insertInternal on a node with room (also when the pending key is     *)
(* smaller than every key of the node), in the move-and-zero loop of       *)
(* splitInternal, and in scanNext when nextEntry reaches L.                *)
C31_InBounds ==
  \A key \in InsertKeys :
    /\ \A p \in Leaves :
         InsertLeafSlots(IF p \in FullLeaves THEN KeptHalf(pages[p]) ELSE pages[p], key)
           \subseteq LeafIdx
    /\ \A n \in Interiors :
         LET c == LeafBelow(n, key)
             pending == IF c \in Leaves \cup Interiors THEN PendingFrom(c, key)
                        ELSE NullInternal
         IN pending.set =>
              IF n \in OpenInteriors
                THEN /\ InsertInternalKeySlots(pages[n], pending.key, nodeOccupancy)
                          \subseteq KeyIdx
                     /\ InsertInternalPageSlots(pages[n], pending.key, nodeOccupancy)
                          \subseteq ChildIdx
                ELSE /\ SplitKeySlots(PushupIndex(pages[n], pending.key)) \subseteq KeyIdx
                     /\ SplitPageSlots(PushupIndex(pages[n], pending.key)) \subseteq ChildIdx
    /\ LET s == startScan(FreshScan(EngineState), FullRange.lo, FullRange.loOp,
                          FullRange.hi, FullRange.hiOp)
       IN ScanSlots(s, leafOccupancy * Len(pages)) \subseteq LeafIdx

----------------------------------------------------------------------------
(* Termination.  Each loop and recursion of the engine follows page ids;   *)
(* it ends when it reaches a leaf, page 0 or a page id that readPage       *)
(* refuses, which on a path without a repeated page takes fewer steps than *)
(* the file has pages.                                                     *)

\* The recursion of insert from page p reaches a leaf, or a readPage that
\* raises, within `fuel` steps.
RECURSIVE InsertEnds(_, _, _, _)
InsertEnds(p, isLeaf, key, fuel) ==
  IF isLeaf THEN TRUE
  ELSE LET c == findNextInternal(pages[p], key) IN
       IF c \notin PageIds THEN TRUE
       ELSE fuel > 0 /\ InsertEnds(c, pages[p].level # 0, key, fuel - 1)

\* The descent loop of startScan from interior page p ends within `fuel`
\* rounds.
RECURSIVE DescentEnds(_, _, _)
DescentEnds(p, low, fuel) ==
  LET node == pages[p]
      c == ChildAt(node, ScanChildIndex(node, low))
  IN IF c \notin PageIds \/ node.level # 0 THEN TRUE
     ELSE fuel > 0 /\ DescentEnds(c, low, fuel - 1)

\* The rightSibPageNo chain from leaf p visits no leaf twice and ends in 0.
ChainEnds(p) ==
  LET chain == ChainFrom(p, Cardinality(Leaves) + 1)
  IN /\ Len(chain) <= Cardinality(Leaves)
     /\ pages[chain[Len(chain)]].rightSibPageNo = 0

(* C32.  Every call of insertEntry, startScan and scanNext terminates on   *)
(* every reachable tree: the recursion of insert and the descent of a scan *)
(* reach a leaf after finitely many steps, and the leaf search of          *)
(* startScan and the sibling step of scanNext follow a rightSibPageNo      *)
(* chain that has no cycle and ends in 0.                                  *)
C32_Terminates ==
  /\ \A key \in InsertKeys :
       InsertEnds(rootPageNum, rootPageNum = initialRootPageId, key, Len(pages))
  /\ \A low \in Int32 :
       rootPageNum # initialRootPageId => DescentEnds(rootPageNum, low, Len(pages))
  /\ \A p \in Leaves : ChainEnds(p)

\* A tree of three levels over a chain of at least four leaves.
C32_Witness ==
  /\ Completed
  /\ rootPageNum \in Interiors
  /\ pages[rootPageNum].level = 0
  /\ Len(LeafChain) >= 4
  /\ \E p \in Interiors : pages[p].pageNoArray[0] \in Leaves /\ pages[p].pageNoArray[1] = 0

----------------------------------------------------------------------------
\* Number of insertEntry calls in a behaviour of SpecPath.
MaxPathInserts == 10

\* An index built from a relation stored in non-increasing key order, deep
\* enough for inserts into a tree of three levels.
PathInsertEntry == InsertEntryUpTo(BackwardKeys, MaxPathInserts)

NextPath == PathInsertEntry

SpecPath == Init /\ [][NextPath]_vars

----------------------------------------------------------------------------
\* The pages insert visits for a key, from page p down.
RECURSIVE PathFrom(_, _, _, _)
PathFrom(p, isLeaf, key, fuel) ==
  IF isLeaf \/ fuel = 0 THEN <<p>>
  ELSE LET c == findNextInternal(pages[p], key) IN
       IF c \notin PageIds THEN <<p>>
       ELSE <<p>> \o PathFrom(c, pages[p].level # 0, key, fuel - 1)

\* Where in the trace page p split, and where p was unpinned dirty.
SplitAt(tr, p) ==
  CHOOSE j \in 1 .. Len(tr) - 1 :
    tr[j].op = "allocPage" /\ tr[j + 1].op = "access" /\ tr[j + 1].page = p

DirtyUnpins(tr, p) ==
  {j \in DOMAIN tr : tr[j].op = "unPinPage" /\ tr[j].page = p /\ tr[j].dirty}

(* C33.  Within one insertEntry splits propagate bottom-up: an interior    *)
(* node of the descent path is modified only after its child on the path   *)
(* has split and produced the pending entry, a node whose child did not    *)
(* split is not modified at all, and the pending entry is consumed by the  *)
(* first ancestor that has room, so that no node above it is touched.      *)
C33_BottomUp ==
  [][(lastOp' = "insertEntry" /\ result' = "ok") =>
       LET key == inserted'[Len(inserted')].key
           path == PathFrom(rootPageNum, rootPageNum = initialRootPageId, key, Len(pages))
           tr == trace'
       IN /\ \A k \in 1 .. Len(path) - 1 :
               LET n == path[k]
                   c == path[k + 1]
                   room == pages[n].pageNoArray[nodeOccupancy] = 0
               IN IF c \notin SplitPages(tr)
                    THEN /\ pages'[n] = pages[n]
                         /\ n \notin SplitPages(tr)
                         /\ DirtyUnpins(tr, n) = {}
                    ELSE IF room
                      THEN /\ n \notin SplitPages(tr)
                           /\ DirtyUnpins(tr, n) # {}
                           /\ \A j \in DirtyUnpins(tr, n) : j > SplitAt(tr, c)
                      ELSE /\ n \in SplitPages(tr)
                           /\ SplitAt(tr, n) > SplitAt(tr, c)
          /\ \A p \in PageIds \ (Range(path) \cup {headerPageNum}) : pages'[p] = pages[p]]_vars

\* A call into a tree of three levels has split a leaf; the leaf's parent
\* took the pending entry and the root above it was left alone.
C33_Witness ==
  /\ Completed
  /\ pages[rootPageNum].kind = "nonleaf"
  /\ pages[rootPageNum].level = 0
  /\ Promotions(trace) = {}
  /\ Cardinality(SplitPages(trace)) = 1
  /\ SplitPages(trace) \subseteq Leaves
  /\ DirtyUnpins(trace, rootPageNum) = {}

----------------------------------------------------------------------------
\* A scan of the index in this state, run to its end and ended: at most n
\* scanNext calls, then endScan.
RECURSIVE RunScan(_, _)
RunScan(sc, n) ==
  IF Raised(sc) THEN endScan([sc EXCEPT !.exc = "none"])
  ELSE IF n = 0 THEN endScan(sc)
  ELSE RunScan(scanNext(sc, NoScanUB), n - 1)

\* The unPinPage events of a trace that carry the dirty flag.
DirtyEvents(tr) == {j \in DOMAIN tr : tr[j].op = "unPinPage" /\ tr[j].dirty}

\* Every page that startScan, scanNext and endScan release in this state is
\* released clean, and none is modified.
ScansUnpinClean ==
  \A c \in ScanCalls :
    LET s == startScan(FreshScan(EngineState), c.lo, c.loOp, c.hi, c.hiOp)
        e == RunScan(s, leafOccupancy * Len(pages))
    IN DirtyEvents(s.trace) = {} /\ DirtyEvents(e.trace) = {} /\ e.pages = pages

\* The constructor, opening the file in this state, releases the header clean.
OpenUnpinsClean ==
  LET meta == pages[headerPageNum]
      s == BTreeIndexOpen(FreshScan(EngineState), meta.relationName,
                          meta.attrByteOffset, meta.attrType)
  IN /\ \E j \in DOMAIN s.trace : s.trace[j].op = "unPinPage" /\ s.trace[j].page = headerPageNum
     /\ DirtyEvents(s.trace) = {}
     /\ s.pages = pages

(* C34.  A page is unpinned dirty if and only if the engine modified it    *)
(* after acquiring it.  In an insertEntry the leaves and interior nodes    *)
(* that received an entry or were split, the newly allocated pages and,    *)
(* on a promotion, the header are unpinned dirty, and an interior node     *)
(* whose child did not split is unpinned clean; every page released by     *)
(* startScan, scanNext and endScan, and the header on open, is unpinned    *)
(* clean.                                                                  *)
C34_DirtyIffModified ==
  [][/\ (lastOp' = "insertEntry" /\ result' = "ok") =>
          LET key == inserted'[Len(inserted')].key
              path == PathFrom(rootPageNum, rootPageNum = initialRootPageId, key, Len(pages))
              tr == trace'
              untouched == {path[k] : k \in {i \in 1 .. Len(path) - 1 :
                                                path[i + 1] \notin SplitPages(tr)}}
          IN /\ \A j \in DOMAIN tr :
                  tr[j].op = "unPinPage" =>
                    LET p == tr[j].page IN
                    /\ tr[j].dirty <=> p \notin untouched
                    /\ ~tr[j].dirty => pages'[p] = pages[p]
                    /\ tr[j].dirty =>
                         \/ p \notin PageIds
                         \/ p = headerPageNum /\ Promotions(tr) # {}
                         \/ p \in Range(path)
             /\ \A p \in PageIds : pages'[p] # pages[p] => DirtyUnpins(tr, p) # {}
     /\ ScansUnpinClean
     /\ OpenUnpinsClean]_vars

\* An insert into a tree of three levels went to a leaf with room: the leaf
\* was unpinned dirty, the two interior nodes above it clean.
C34_Witness ==
  /\ Completed
  /\ pages[rootPageNum].kind = "nonleaf"
  /\ pages[rootPageNum].level = 0
  /\ SplitPages(trace) = {}
  /\ Cardinality({trace[j].page : j \in DirtyEvents(trace)}) = 1
  /\ Cardinality({trace[j].page : j \in {i \in DOMAIN trace :
                     trace[i].op = "unPinPage" /\ ~trace[i].dirty}}) = 2

----------------------------------------------------------------------------
\* The call that made this step touched page p: pinned, unpinned, read or
\* wrote it.
Touched(tr, p) == \E j \in DOMAIN tr : tr[j].page = p

(* C35.  After creation the header page changes only in a root promotion:  *)
(* an insertEntry that does not promote the root and every startScan,      *)
(* scanNext and endScan neither pin nor modify the header page, a          *)
(* promotion changes only its rootPageNo, and the relationName,            *)
(* attrByteOffset and attrType it stores never change.                     *)
C35_HeaderFrame ==
  [][LET promoted == lastOp' = "insertEntry" /\ Promotions(trace') # {}
     IN /\ pages'[headerPageNum].relationName = pages[headerPageNum].relationName
        /\ pages'[headerPageNum].attrByteOffset = pages[headerPageNum].attrByteOffset
        /\ pages'[headerPageNum].attrType = pages[headerPageNum].attrType
        /\ pinCnt'[headerPageNum] = pinCnt[headerPageNum]
        /\ ~promoted =>
             /\ pages'[headerPageNum] = pages[headerPageNum]
             /\ ~Touched(trace', headerPageNum)
        /\ promoted =>
             /\ pages'[headerPageNum] =
                  [pages[headerPageNum] EXCEPT !.rootPageNo = rootPageNum']
             /\ rootPageNum' # rootPageNum]_vars

\* A scan is under way on an index whose root was promoted.
C35_Witness ==
  /\ lastOp = "scanNext"
  /\ result = "ok"
  /\ rootPageNum \in Interiors
  /\ pages[headerPageNum].rootPageNo # FirstRootPage
  /\ pinCnt[headerPageNum] = 0


----------------------------------------------------------------------------
\* The buffer events of one promotion to root page r come in the order of
\* splitRoot: every event on the header page stands after the allocation of
\* r and after the write of r's fields, and after it r is only unpinned.
HeaderLast(tr, r) ==
  \A i \in DOMAIN tr :
    tr[i].page = headerPageNum =>
      /\ \E j \in 1 .. i - 1 : tr[j].op = "allocPage" /\ tr[j].page = r
      /\ \E k \in 1 .. i - 1 : tr[k].op = "access" /\ tr[k].page = r
      /\ \A m \in DOMAIN tr : m > i /\ tr[m].page = r => tr[m].op = "unPinPage"

\* The root page a header names is a page of the file, filled in as a root.
NamesRoot(ps, first) ==
  LET r == ps[headerPageNum].rootPageNo IN
  /\ r \in 1 .. Len(ps)
  /\ r # first =>
       /\ ps[r].kind = "nonleaf"
       /\ ps[r].level \in {0, 1}
       /\ ps[r].pageNoArray[0] \in (1 .. Len(ps)) \ {headerPageNum, r}
       /\ ps[r].pageNoArray[1] \in (1 .. Len(ps)) \ {headerPageNum, r}

(* C36.  In a root promotion the header's rootPageNo is written only after *)
(* the new root page has been allocated and its level, keys[0],            *)
(* children[0] and children[1] have been written: the header never names   *)
(* a root page that is unallocated or not yet filled in.                   *)
C36_HeaderAfterRoot ==
  [][/\ \A pending \in PendingPairs :
          LET st == splitRoot(EngineState, rootPageNum, pending) IN
          /\ Touched(st.trace, headerPageNum)
          /\ HeaderLast(st.trace, st.pages[headerPageNum].rootPageNo)
          /\ OneKeyNode(st.pages[st.pages[headerPageNum].rootPageNo],
                        pending.key, rootPageNum, pending.pageNo)
     /\ pages'[headerPageNum].rootPageNo \in 1 .. Len(pages')
     /\ pages'[pages'[headerPageNum].rootPageNo].kind \in {"leaf", "nonleaf"}
     /\ rootPageNum' # rootPageNum =>
          /\ NamesRoot(pages', initialRootPageId')
          /\ Touched(trace', headerPageNum)
          /\ HeaderLast(trace', rootPageNum')
          /\ pages'[headerPageNum].rootPageNo = rootPageNum']_vars

\* The call that just returned promoted the root and wrote the header.
C36_Witness ==
  /\ Completed
  /\ Promotions(trace) # {}
  /\ Touched(trace, headerPageNum)
  /\ pages[headerPageNum].rootPageNo = rootPageNum
  /\ rootPageNum \in Interiors
  /\ pinCnt[rootPageNum] = 0


----------------------------------------------------------------------------
\* The occupied slots of a leaf that hold the key.
EqualKeySlots(leaf, key) == {i \in Occupied(leaf) : leaf.keyArray[i] = key}

LastSlot(slots) == CHOOSE i \in slots : \A j \in slots : j <= i

\* insertLeaf of a key the leaf already holds: the entries up to the last
\* one with that key stay where they are, the new entry takes the next slot,
\* and the entries behind it, all of a greater key, move one slot right.
PlacedAfterEqual(leaf, key, rid) ==
  LET after == insertLeaf(leaf, [key |-> key, rid |-> rid])
      last == LastSlot(EqualKeySlots(leaf, key))
  IN /\ after.keyArray[last + 1] = key
     /\ after.ridArray[last + 1] = rid
     /\ \A i \in LeafIdx : i <= last =>
          /\ after.keyArray[i] = leaf.keyArray[i]
          /\ after.ridArray[i] = leaf.ridArray[i]
     /\ \A i \in Occupied(leaf) : i > last =>
          /\ leaf.keyArray[i] > key
          /\ after.keyArray[i + 1] = leaf.keyArray[i]
          /\ after.ridArray[i + 1] = leaf.ridArray[i]
     /\ Occupied(after) = Occupied(leaf) \cup {Cardinality(Occupied(leaf))}

\* The rids of equal keys of a leaf stand in the order of their insertEntry
\* calls (the k-th call inserts the rid of page_number k).
EqualKeysInOrder(leaf) ==
  \A i, j \in Occupied(leaf) :
    i < j /\ leaf.keyArray[i] = leaf.keyArray[j] =>
      leaf.ridArray[i].page_number < leaf.ridArray[j].page_number

(* C37.  Inserting a key equal to keys already in a non-full leaf places   *)
(* the new entry immediately after the last existing entry with that key   *)
(* (only entries of a strictly greater key are shifted), so the rids of    *)
(* equal keys within a leaf are in insertion order.                        *)
C37_EqualKeysAppend ==
  /\ \A p \in Leaves \ FullLeaves :
       \A key \in InsertKeys :
         EqualKeySlots(pages[p], key) # {} =>
           PlacedAfterEqual(pages[p], key,
                            [page_number |-> insertCalls + 1, slot_number |-> 1])
  /\ \A p \in Leaves : EqualKeysInOrder(pages[p])

\* The call that just returned put its rid, without a split, behind an older
\* entry of the same key and in front of an entry of a greater key.
C37_Witness ==
  /\ Completed
  /\ SplitPages(trace) = {}
  /\ \E p \in Leaves :
       \E i \in LeafIdx :
         /\ {i, i + 1, i + 2} \subseteq Occupied(pages[p])
         /\ pages[p].ridArray[i + 1].page_number = insertCalls
         /\ pages[p].keyArray[i] = pages[p].keyArray[i + 1]
         /\ pages[p].keyArray[i + 2] > pages[p].keyArray[i + 1]

====
